---- MODULE Spec2Model ----
(***************************************************************************)
(* Conversation orchestration of the chat client: the transcript, the      *)
(* staged files, the upload panel with its per-file analysis, and the      *)
(* submit handlers of the two ChatInterface builds found in the            *)
(* repository:                                                             *)
(*   "ChatInterface"  src/src/components/ChatInterface.tsx, whose upload   *)
(*                    panel is EnhancedFileUpload (analysis on request);   *)
(*   "part_005"       src/unnamed/part_005, whose handleSendMessage runs   *)
(*                    analyzeFilesWithAI itself before it appends anything.*)
(* Every await of a handler is a suspension point: the code before it and  *)
(* the continuation after it are separate atomic actions (single-threaded  *)
(* event loop).  Collaborator calls (text generation, image generation,    *)
(* web search, file analysis) resolve or reject nondeterministically.      *)
(***************************************************************************)
EXTENDS Integers, Sequences, FiniteSets, TLC

\* ---- bounds of the model ------------------------------------------------
MaxTurns == 2      \* submitted turns in the specifications of single turns and of pairs
MaxActivations == 3 \* handler activations of handleSendMessage that pass the guard
MaxClock == 1      \* Date.now() ranges over 0..MaxClock
MaxFiles == 1      \* distinct files the user can pick

VARIABLES
  variant,            \* which ChatInterface build is running
  serviceAvailable,   \* fileAnalysisService.current is non-null
  clock,              \* Date.now()
  messages,           \* useState<Message[]>
  isLoading,          \* useState(false)
  isSearching,        \* useState(false)
  input,              \* useState('')
  uploadedFiles,      \* ChatInterface: useState<UploadedFile[]> (staging area)
  isWebSearchEnabled, \* useState(false)
  provider,           \* useState(DEFAULT_PROVIDER), by id
  model,              \* useState(DEFAULT_MODEL), by id
  batches,            \* upload panel: processFiles calls, with the files that were picked
  alerts,             \* upload panel: alert(...) notices shown so far
  detected,           \* calls of detectLanguage with the language returned
  rendered,           \* calls of formatFilesForMessage with the text returned
  panelFiles,         \* upload panel: its own useState<UploadedFile[]>
  usedFiles,          \* files already picked once (file ids are never reused)
  analyses,           \* upload panel: analyzeFile calls awaiting the collaborator
  turns,              \* activations of handleSendMessage: position and closure
  svc,                \* FileAnalysisService.analyzeFile: the calls at work, per file
  uploadCall,         \* GoogleGenAIService.uploadFile: the call at work
  mdContent,          \* MessageBubble: message.content of the bubble being rendered
  mdElements,         \* MessageBubble: useMemo(processMessageContent)
  mdBlocks,           \* MessageBubble: useMemo(runnableCodeBlocks)
  showWorkspace,      \* ChatInterface: useState(false)
  workspaceFiles,     \* ChatInterface: useState (fragments handed to the workspace)
  executionState,     \* ChatInterface: useState({isRunning, output})
  localExecutionState,\* MainWorkspace: useState<ExecutionState>
  wsInput,            \* MainWorkspace: useState('') (stdin box)
  isInputExpanded,    \* MainWorkspace: useState(false)
  runs                \* executeCode calls awaiting the execution collaborator

chatVars == <<variant, batches, alerts, detected, rendered, serviceAvailable, clock, messages, isLoading, isSearching,
              input, uploadedFiles, isWebSearchEnabled, provider, model, panelFiles,
              usedFiles, analyses, turns>>

\* state of the components around the conversation: analysis service, message
\* bubble, code workspace
bubbleVars == <<mdContent, mdElements, mdBlocks>>
runVars == <<showWorkspace, workspaceFiles, executionState, localExecutionState,
             wsInput, isInputExpanded, runs>>
auxVars == <<svc, uploadCall, bubbleVars, runVars>>

vars == <<chatVars, auxVars>>

\* ---- value spaces -------------------------------------------------------
Variants  == {"ChatInterface", "part_005"}
Providers == {"openrouter", "google", "rapidapi"}
DEFAULT_PROVIDER == "openrouter"

\* OPENROUTER_MODELS, GOOGLE_MODELS, IMAGE_GENERATION_MODELS, by id
OPENROUTER_MODELS ==
  <<"mistralai/mistral-small-3.2-24b-instruct:free", "google/gemma-3-27b-it:free",
    "google/gemini-flash-1.5", "moonshotai/kimi-dev-72b:free",
    "deepseek/deepseek-r1-0528:free", "sarvamai/sarvam-m:free",
    "microsoft/phi-4-reasoning-plus:free", "qwen/qwen3-30b-a3b:free",
    "featherless/qwerky-72b:free", "qwen/qwen2.5-vl-72b-instruct:free",
    "nvidia/llama-3.3-nemotron-super-49b-v1:free", "thudm/glm-z1-32b:free",
    "tngtech/deepseek-r1t-chimera:free">>
GOOGLE_MODELS == <<"gemini-2.5-flash", "gemini-1.5-flash">>
IMAGE_GENERATION_MODELS == <<"rapidapi-flux", "rapidapi-midjourney">>

\* provider.models
ModelsOf(p) ==
  CASE p = "openrouter" -> OPENROUTER_MODELS
    [] p = "google"     -> GOOGLE_MODELS
    [] p = "rapidapi"   -> IMAGE_GENERATION_MODELS
DEFAULT_MODEL == OPENROUTER_MODELS[1]
maxFiles == 5   \* <EnhancedFileUpload maxFiles={5}>
Texts     == {"", " ", "hi", "analyze"}
FileIds   == 1..MaxFiles

\* String.prototype.trim on the texts of the model
Trim(t) == IF t = " " THEN "" ELSE t

\* the keyword test of handleSendMessage (includes('analyze') || ...)
HasAnalysisKeyword(t) == t \in {"analyze"}

\* mime class of a picked file: decides the branch of formatFilesForMessage
FileType(f) == CASE f % 3 = 1 -> "text"
                 [] f % 3 = 2 -> "image"
                 [] OTHER     -> "binary"

\* message ids are `${prefix}-${Date.now()}`
Id(prefix, time) == <<prefix, time>>
NoId == <<"none", 0>>

MAX_CONVERSATION_HISTORY_MESSAGES == 10

\* a piece of message content: what it is, which file it is about, which text
Part(k, f, t) == [k |-> k, f |-> f, t |-> t]

MapSeq(s, F(_)) == [i \in 1..Len(s) |-> F(s[i])]

NewFile(f, status) ==
  [id |-> f, analysisStatus |-> status, analysis |-> "none", uploadedFile |-> FALSE]

\* ---- formatFilesForMessage ----------------------------------------------
\* ChatInterface.tsx: analysis text if present, else raw text content for
\* text files, else a placeholder line
FormatOneFile(file) ==
  <<Part("header", file.id, "")>> \o
  ( IF file.analysis # "none" THEN <<Part("analysis", file.id, file.analysis)>>
    ELSE IF FileType(file.id) = "text" THEN <<Part("raw", file.id, "")>>
    ELSE <<Part("placeholder", file.id, "")>> )

RECURSIVE formatFilesForMessage(_)
formatFilesForMessage(files) ==
  IF files = <<>> THEN <<>>
  ELSE FormatOneFile(Head(files)) \o formatFilesForMessage(Tail(files))

\* part_005: no analysis field; image data is inlined for the text providers
FormatOneFileAlt(file, prov) ==
  <<Part("header", file.id, "")>> \o
  ( IF FileType(file.id) = "text" THEN <<Part("raw", file.id, "")>>
    ELSE IF FileType(file.id) = "image"
      THEN <<Part("placeholder", file.id, "")>> \o
           (IF prov \in {"google", "openrouter"} THEN <<Part("raw", file.id, "")>> ELSE <<>>)
    ELSE <<Part("placeholder", file.id, "")>> )

RECURSIVE formatFilesForMessageAlt(_, _)
formatFilesForMessageAlt(files, prov) ==
  IF files = <<>> THEN <<>>
  ELSE FormatOneFileAlt(Head(files), prov) \o formatFilesForMessageAlt(Tail(files), prov)

Manifest(files) == MapSeq(files, LAMBDA file : Part("manifest", file.id, ""))

\* {isRunning, output} of the code workspace
ExecutionState(running, output) == [isRunning |-> running, output |-> output]

\* ---- Init ---------------------------------------------------------------
Init ==
  /\ variant \in Variants
  /\ serviceAvailable \in BOOLEAN
  /\ clock = 0
  /\ messages = <<>>
  /\ isLoading = FALSE
  /\ isSearching = FALSE
  /\ input = ""
  /\ uploadedFiles = <<>>
  /\ isWebSearchEnabled = FALSE
  /\ provider = DEFAULT_PROVIDER
  /\ model = DEFAULT_MODEL
  /\ batches = <<>>
  /\ alerts = {}
  /\ detected = <<>>
  /\ rendered = <<>>
  /\ panelFiles = <<>>
  /\ usedFiles = {}
  /\ analyses = {}
  /\ turns = <<>>
  /\ svc = <<>>
  /\ uploadCall = [pc |-> "idle", attempts |-> 0, state |-> "none", error |-> "none"]
  /\ mdContent = <<>>
  /\ mdElements = <<>>
  /\ mdBlocks = <<>>
  /\ showWorkspace = FALSE
  /\ workspaceFiles = <<>>
  /\ executionState = ExecutionState(FALSE, <<>>)
  /\ localExecutionState = ExecutionState(FALSE, <<>>)
  /\ wsInput = ""
  /\ isInputExpanded = FALSE
  /\ runs = <<>>

\* ---- environment and plain UI handlers ----------------------------------
Tick ==
  /\ clock < MaxClock
  /\ clock' = clock + 1
  /\ UNCHANGED <<auxVars, variant, batches, alerts, detected, rendered, serviceAvailable, messages, isLoading, isSearching, input,
                 uploadedFiles, isWebSearchEnabled, provider, model, panelFiles, usedFiles,
                 analyses, turns>>

\* the textarea and the send button are disabled={isLoading || isSearching}
InputEnabled == ~isLoading /\ ~isSearching

handleInputChange(t) ==
  /\ InputEnabled
  /\ t # input
  /\ input' = t
  /\ UNCHANGED <<auxVars, variant, batches, alerts, detected, rendered, serviceAvailable, clock, messages, isLoading, isSearching,
                 uploadedFiles, isWebSearchEnabled, provider, model, panelFiles, usedFiles,
                 analyses, turns>>

\* a provider change that keeps the model of the provider left behind
handleProviderChange_KeepsModel(p) ==
  /\ p # provider
  /\ provider' = p
  /\ UNCHANGED <<auxVars, variant, batches, alerts, detected, rendered, serviceAvailable, clock, messages, isLoading, isSearching,
                 input, uploadedFiles, isWebSearchEnabled, model, panelFiles, usedFiles,
                 analyses, turns>>

\* setProvider(newProvider); setModel(newProvider.models[0])
handleProviderChange(p) ==
  /\ p # provider \/ model # ModelsOf(p)[1]
  /\ provider' = p
  /\ model' = ModelsOf(p)[1]
  /\ UNCHANGED <<auxVars, variant, batches, alerts, detected, rendered, serviceAvailable, clock, messages, isLoading, isSearching,
                 input, uploadedFiles, isWebSearchEnabled, panelFiles, usedFiles,
                 analyses, turns>>

\* <ModelSelector models={provider.models} onModelChange={handleModelChange}>
handleModelChange(m) ==
  /\ \E i \in 1..Len(ModelsOf(provider)) : ModelsOf(provider)[i] = m
  /\ m # model
  /\ model' = m
  /\ UNCHANGED <<auxVars, variant, batches, alerts, detected, rendered, serviceAvailable, clock, messages, isLoading, isSearching,
                 input, uploadedFiles, isWebSearchEnabled, provider, panelFiles, usedFiles,
                 analyses, turns>>

ToggleWebSearch ==
  /\ isWebSearchEnabled' = ~isWebSearchEnabled
  /\ UNCHANGED <<auxVars, variant, batches, alerts, detected, rendered, serviceAvailable, clock, messages, isLoading, isSearching,
                 input, uploadedFiles, provider, model, panelFiles, usedFiles, analyses, turns>>

\* ---- upload panel (EnhancedFileUpload / FileUpload) -----------------------
\* processFiles for a batch of one picked file: the descriptor is appended to
\* the panel's list and the whole list is handed to ChatInterface
processFiles(f) ==
  /\ f \notin usedFiles
  /\ Len(panelFiles) + 1 <= maxFiles
  /\ LET status == IF variant = "ChatInterface" THEN "pending" ELSE "none"
         updatedFiles == Append(panelFiles, NewFile(f, status))
     IN /\ panelFiles' = updatedFiles
        /\ uploadedFiles' = updatedFiles          \* onFilesUploaded(updatedFiles)
  /\ usedFiles' = usedFiles \cup {f}
  /\ UNCHANGED <<auxVars, variant, batches, alerts, detected, rendered, serviceAvailable, clock, messages, isLoading, isSearching,
                 input, isWebSearchEnabled, provider, model, analyses, turns>>

removeFile(f) ==
  /\ \E i \in 1..Len(panelFiles) : panelFiles[i].id = f
  /\ LET updatedFiles == SelectSeq(panelFiles, LAMBDA x : x.id # f)
     IN /\ panelFiles' = updatedFiles
        /\ uploadedFiles' = updatedFiles          \* onFilesUploaded(updatedFiles)
  /\ UNCHANGED <<auxVars, variant, batches, alerts, detected, rendered, serviceAvailable, clock, messages, isLoading, isSearching,
                 input, isWebSearchEnabled, provider, model, usedFiles, analyses, turns>>

\* {showFileUpload && <EnhancedFileUpload/>}: closing the panel unmounts it and
\* its state is gone; calls it started keep running
ClosePanel ==
  /\ panelFiles # <<>>
  /\ panelFiles' = <<>>
  /\ UNCHANGED <<auxVars, variant, batches, alerts, detected, rendered, serviceAvailable, clock, messages, isLoading, isSearching,
                 input, uploadedFiles, isWebSearchEnabled, provider, model, usedFiles,
                 analyses, turns>>

\* the "Analyze file" button is rendered unless the file is analyzing, or
\* completed with a stored result (a completed file always has one)
AnalyzeButtonShown(file) == file.analysisStatus \in {"pending", "error"}

SetStatus(files, f, status, analysis, uploaded) ==
  MapSeq(files, LAMBDA x : IF x.id = f
                           THEN [x EXCEPT !.analysisStatus = status,
                                          !.analysis = analysis,
                                          !.uploadedFile = uploaded]
                           ELSE x)

\* analyzeFile up to its await: status := analyzing, collaborator called.
\* The closure keeps the uploadedFiles of the render the click came from.
analyzeFile(f) ==
  /\ variant = "ChatInterface"
  /\ serviceAvailable
  /\ \E i \in 1..Len(panelFiles) :
        /\ panelFiles[i].id = f
        /\ AnalyzeButtonShown(panelFiles[i])
  /\ panelFiles' = MapSeq(panelFiles, LAMBDA x : IF x.id = f
                                                 THEN [x EXCEPT !.analysisStatus = "analyzing"]
                                                 ELSE x)
  /\ analyses' = analyses \cup {[fid |-> f, closure |-> panelFiles]}
  /\ UNCHANGED <<auxVars, variant, batches, alerts, detected, rendered, serviceAvailable, clock, messages, isLoading, isSearching,
                 input, uploadedFiles, isWebSearchEnabled, provider, model, usedFiles, turns>>

\* analyzeFile after its await, collaborator resolved
analyzeFileResolved(a, uploaded) ==
  /\ a \in analyses
  /\ analyses' = analyses \ {a}
  /\ panelFiles' = SetStatus(panelFiles, a.fid, "completed", "ok", uploaded)
  /\ uploadedFiles' = SetStatus(a.closure, a.fid, "completed", "ok", uploaded)
  /\ UNCHANGED <<auxVars, variant, batches, alerts, detected, rendered, serviceAvailable, clock, messages, isLoading, isSearching,
                 input, isWebSearchEnabled, provider, model, usedFiles, turns>>

\* analyzeFile after its await, collaborator rejected (catch branch)
analyzeFileRejected(a) ==
  /\ a \in analyses
  /\ analyses' = analyses \ {a}
  /\ panelFiles' = MapSeq(panelFiles, LAMBDA x : IF x.id = a.fid
                                                 THEN [x EXCEPT !.analysisStatus = "error",
                                                                !.analysis = "err"]
                                                 ELSE x)
  /\ UNCHANGED <<auxVars, variant, batches, alerts, detected, rendered, serviceAvailable, clock, messages, isLoading, isSearching,
                 input, uploadedFiles, isWebSearchEnabled, provider, model, usedFiles, turns>>

\* ---- the submit handlers --------------------------------------------------
Message(id, role, content, loading, error, t) ==
  [id |-> id, role |-> role, content |-> content, isLoading |-> loading,
   isError |-> error, turn |-> t]

Turn(path, pc, now, loadingId, text, files, idx, analysisText, payload, prov) ==
  [path |-> path, pc |-> pc, now |-> now, loadingId |-> loadingId, text |-> text,
   files |-> files, idx |-> idx, analysisText |-> analysisText, payload |-> payload,
   prov |-> prov]

\* Array.prototype.slice(-n)
LastN(s, n) == IF Len(s) <= n THEN s ELSE SubSeq(s, Len(s) - n + 1, Len(s))

\* an element of the list handed to the text-generation collaborator
ChatMessage(role, content) == [role |-> role, content |-> content]

\* messages.slice(-MAX_CONVERSATION_HISTORY_MESSAGES).map(msg => ({role, content}))
ConversationHistory(msgs) ==
  MapSeq(LastN(msgs, MAX_CONVERSATION_HISTORY_MESSAGES),
         LAMBDA msg : ChatMessage(msg.role, msg.content))

\* [...conversationHistory, { role: 'user', content: messageContent }]
CurrentMessages(history, messageContent) ==
  Append(history, ChatMessage("user", messageContent))

\* the two Date.now() calls of one synchronous handler run read the same
\* millisecond; time passes between handler runs (Tick)
LaterTimes == {clock}

\* a submit that lacks the first line of handleSendMessage
SubmitAccepted_NoGuard ==
  /\ InputEnabled
  /\ Len(turns) < MaxActivations

\* first line of handleSendMessage, and the disabled attribute of its triggers
SubmitAccepted ==
  /\ InputEnabled
  /\ Len(turns) < MaxActivations
  /\ ~(Trim(input) = "" /\ uploadedFiles = <<>>)

\* a dispatch that lets the image provider win over web-search mode
TakesWebSearch_ImageFirst ==
  isWebSearchEnabled /\ Trim(input) # "" /\ provider # "rapidapi"

\* if (isWebSearchEnabled && input.trim()) ... else if (provider.id === 'rapidapi') ...
TakesWebSearch == isWebSearchEnabled /\ Trim(input) # ""
TakesImage     == ~TakesWebSearch /\ provider = "rapidapi"
TakesChat      == ~TakesWebSearch /\ provider # "rapidapi"

\* handleWebSearch up to its await
handleWebSearch ==
  /\ SubmitAccepted
  /\ TakesWebSearch
  /\ \E later \in LaterTimes :
       LET t == Len(turns) + 1
           userMessage == Message(Id("user-search", clock), "user",
                                  <<Part("search", 0, input)>>, FALSE, FALSE, t)
           loadingMessageId == Id("loading-search", later)
           loadingMessage == Message(loadingMessageId, "assistant", <<>>, TRUE, FALSE, t)
       IN /\ messages' = messages \o <<userMessage, loadingMessage>>
          /\ turns' = Append(turns, Turn("search", "provider", clock, loadingMessageId,
                                         input, <<>>, 0, <<>>,
                                         <<Part("query", 0, input)>>, provider))
          /\ clock' = later
  /\ isSearching' = TRUE
  /\ input' = ""
  /\ UNCHANGED <<auxVars, variant, batches, alerts, detected, rendered, serviceAvailable, isLoading, uploadedFiles, isWebSearchEnabled,
                 provider, model, panelFiles, usedFiles, analyses>>

\* handleGenerateImage up to its await (empty text returns at once)
handleGenerateImage ==
  /\ SubmitAccepted
  /\ TakesImage
  /\ Trim(input) # ""
  /\ \E later \in LaterTimes :
       LET t == Len(turns) + 1
           userMessage == Message(Id("user-img", clock), "user",
                                  <<Part("imageprompt", 0, input)>>, FALSE, FALSE, t)
           loadingMessageId == Id("loading-img", later)
           loadingMessage == Message(loadingMessageId, "assistant", <<>>, TRUE, FALSE, t)
       IN /\ messages' = messages \o <<userMessage, loadingMessage>>
          /\ turns' = Append(turns, Turn("image", "provider", clock, loadingMessageId,
                                         input, <<>>, 0, <<>>,
                                         <<Part("prompt", 0, input)>>, provider))
          /\ clock' = later
  /\ isLoading' = TRUE
  /\ input' = ""
  /\ UNCHANGED <<auxVars, variant, batches, alerts, detected, rendered, serviceAvailable, isSearching, uploadedFiles, isWebSearchEnabled,
                 provider, model, panelFiles, usedFiles, analyses>>

\* the tail shared by the chat sub-paths: append both entries, set the loading
\* flag, clear the input and the staging area, call the provider
AppendAndCall(t, nowTime, later, userContent, payload, text, files, prov, newTurns) ==
  LET userMessage == Message(Id("user", nowTime), "user", userContent, FALSE, FALSE, t)
      loadingMessageId == Id("loading", later)
      loadingMessage == Message(loadingMessageId, "assistant", <<>>, TRUE, FALSE, t)
  IN /\ messages' = messages \o <<userMessage, loadingMessage>>
     /\ turns' = [newTurns EXCEPT ![t] =
                    Turn("chat", "provider", nowTime, loadingMessageId, text, files,
                         Len(files) + 1, newTurns[t].analysisText, payload, prov)]
     /\ clock' = later
     /\ isLoading' = TRUE
     /\ input' = ""
     /\ uploadedFiles' = <<>>

\* the handler at its start; payload holds the conversation history of the
\* render the handler closes over
BlankTurn ==
  Turn("chat", "start", clock, NoId, input, uploadedFiles, 1, <<>>,
       ConversationHistory(messages), provider)

\* ChatInterface.tsx, chat path, files already uploaded to Google AI:
\* the user entry shows the text and the names of the files
handleSendMessageWithUploads ==
  /\ variant = "ChatInterface"
  /\ SubmitAccepted
  /\ TakesChat
  /\ LET filesWithUploads == SelectSeq(uploadedFiles, LAMBDA f : f.uploadedFile)
     IN /\ filesWithUploads # <<>>
        /\ provider = "google"
        /\ \E later \in LaterTimes :
             AppendAndCall(Len(turns) + 1, clock, later,
                           <<Part("text", 0, input)>> \o Manifest(uploadedFiles),
                           <<ChatMessage("user",
                               MapSeq(filesWithUploads, LAMBDA f : Part("fileref", f.id, ""))
                               \o <<Part("text", 0, input)>>)>>,
                           input, uploadedFiles, provider, Append(turns, BlankTurn))
  /\ UNCHANGED <<auxVars, variant, batches, alerts, detected, rendered, serviceAvailable, isSearching, isWebSearchEnabled, provider, model,
                 panelFiles, usedFiles, analyses>>

\* ChatInterface.tsx, chat path, "regular message handling"
handleSendMessageRegular ==
  /\ variant = "ChatInterface"
  /\ SubmitAccepted
  /\ TakesChat
  /\ ~(SelectSeq(uploadedFiles, LAMBDA f : f.uploadedFile) # <<>> /\ provider = "google")
  /\ LET messageContent == <<Part("text", 0, input)>> \o formatFilesForMessage(uploadedFiles)
     IN \E later \in LaterTimes :
          AppendAndCall(Len(turns) + 1, clock, later, messageContent,
                        CurrentMessages(ConversationHistory(messages), messageContent),
                        input, uploadedFiles, provider, Append(turns, BlankTurn))
  /\ UNCHANGED <<auxVars, variant, batches, alerts, detected, rendered, serviceAvailable, isSearching, isWebSearchEnabled, provider, model,
                 panelFiles, usedFiles, analyses>>

\* part_005: the keyword test on the input
isRequestingFileAnalysis == uploadedFiles # <<>> /\ HasAnalysisKeyword(input)

\* part_005, chat path, no analysis requested (or no analysis service)
handleSendMessageDirect ==
  /\ variant = "part_005"
  /\ SubmitAccepted
  /\ TakesChat
  /\ ~(isRequestingFileAnalysis /\ serviceAvailable)
  /\ LET messageContent == <<Part("text", 0, input)>> \o
                           formatFilesForMessageAlt(uploadedFiles, provider)
     IN \E later \in LaterTimes :
          AppendAndCall(Len(turns) + 1, clock, later, messageContent,
                        CurrentMessages(ConversationHistory(messages), messageContent),
                        input, uploadedFiles, provider, Append(turns, BlankTurn))
  /\ UNCHANGED <<auxVars, variant, batches, alerts, detected, rendered, serviceAvailable, isSearching, isWebSearchEnabled, provider, model,
                 panelFiles, usedFiles, analyses>>

\* part_005, chat path, analysis requested: handleSendMessage up to the first
\* await inside analyzeFilesWithAI; nothing has been appended or cleared yet
handleSendMessageAnalyze ==
  /\ variant = "part_005"
  /\ SubmitAccepted
  /\ TakesChat
  /\ isRequestingFileAnalysis /\ serviceAvailable
  /\ turns' = Append(turns, [BlankTurn EXCEPT !.pc = "analyzing"])
  /\ UNCHANGED <<auxVars, variant, batches, alerts, detected, rendered, serviceAvailable, clock, messages, isLoading, isSearching,
                 input, uploadedFiles, isWebSearchEnabled, provider, model, panelFiles,
                 usedFiles, analyses>>

\* a for-loop without the inner try/catch: the first failure ends the batch
analyzeFilesWithAI_AbortsOnFailure(t, ok) ==
  /\ t \in 1..Len(turns)
  /\ turns[t].pc = "analyzing"
  /\ LET T == turns[t]
         file == T.files[T.idx]
         text == IF ok THEN Append(T.analysisText, Part("analysis", file.id, "ok"))
                       ELSE <<Part("analysisfailed", 0, "")>>
         stepped == [turns EXCEPT ![t].analysisText = text, ![t].idx = T.idx + 1]
     IN IF ok /\ T.idx < Len(T.files)
        THEN /\ turns' = stepped
             /\ UNCHANGED <<clock, messages, isLoading, input, uploadedFiles>>
        ELSE LET messageContent == <<Part("text", 0, T.text)>> \o text \o
                                   formatFilesForMessageAlt(T.files, T.prov)
             IN AppendAndCall(t, T.now, clock, messageContent,
                              CurrentMessages(T.payload, messageContent),
                              T.text, T.files, T.prov, stepped)
  /\ UNCHANGED <<auxVars, variant, batches, alerts, detected, rendered, serviceAvailable, isSearching, isWebSearchEnabled, provider, model,
                 panelFiles, usedFiles, analyses>>

\* part_005: one round of the for-loop of analyzeFilesWithAI settles; after the
\* last file the handler goes on to append, clear and call the provider
analyzeFilesWithAI(t, ok) ==
  /\ t \in 1..Len(turns)
  /\ turns[t].pc = "analyzing"
  /\ LET T == turns[t]
         file == T.files[T.idx]
         text == Append(T.analysisText,
                        IF ok THEN Part("analysis", file.id, "ok")
                              ELSE Part("analysisfailed", file.id, ""))
         stepped == [turns EXCEPT ![t].analysisText = text, ![t].idx = T.idx + 1]
     IN IF T.idx < Len(T.files)
        THEN /\ turns' = stepped
             /\ UNCHANGED <<clock, messages, isLoading, input, uploadedFiles>>
        ELSE LET messageContent == <<Part("text", 0, T.text)>> \o text \o
                                   formatFilesForMessageAlt(T.files, T.prov)
             IN AppendAndCall(t, T.now, clock, messageContent,
                              CurrentMessages(T.payload, messageContent),
                              T.text, T.files, T.prov, stepped)
  /\ UNCHANGED <<auxVars, variant, batches, alerts, detected, rendered, serviceAvailable, isSearching, isWebSearchEnabled, provider, model,
                 panelFiles, usedFiles, analyses>>

\* ---- settlement of the awaited collaborator call --------------------------
SearchOutcomes == {"results", "noresults"}

\* a search report whose heading leaves the query out
ResponseContent_NoQuery(T, outcome) ==
  CASE T.path = "search" -> <<Part("report", 0, ""), Part(outcome, 0, "")>>
    [] T.path = "image"  -> <<Part("generated", 0, ""), Part("imageurl", 0, "")>>
    [] OTHER             -> <<Part("response", 0, "")>>

\* what the success branch writes into the placeholder
ResponseContent(T, outcome) ==
  CASE T.path = "search" -> <<Part("report", 0, T.text), Part(outcome, 0, "")>>
    [] T.path = "image"  -> <<Part("generated", 0, ""), Part("imageurl", 0, "")>>
    [] OTHER             -> <<Part("response", 0, "")>>

\* setMessages(prev => prev.map(msg => msg.id === loadingMessageId ? {...} : msg))
ResolveById(prev, loadingMessageId, content) ==
  MapSeq(prev, LAMBDA msg : IF msg.id = loadingMessageId
                            THEN [msg EXCEPT !.content = content, !.isLoading = FALSE]
                            ELSE msg)

\* a catch branch that appends the error entry and forgets the placeholder
RejectById_KeepsPlaceholder(prev, loadingMessageId, t) ==
  Append(prev,
         [id |-> loadingMessageId, role |-> "assistant",
          content |-> <<[k |-> "error", f |-> 0, t |-> ""]>>,
          isLoading |-> FALSE, isError |-> TRUE, turn |-> t])

\* a catch branch that replaces the placeholder and forgets the isError flag
RejectById_NoErrorFlag(prev, loadingMessageId, t) ==
  Append(SelectSeq(prev, LAMBDA msg : msg.id # loadingMessageId),
         [id |-> loadingMessageId, role |-> "assistant",
          content |-> <<[k |-> "error", f |-> 0, t |-> ""]>>,
          isLoading |-> FALSE, isError |-> FALSE, turn |-> t])

\* setMessages(prev => [...prev.filter(msg => msg.id !== loadingMessageId), errorMessage])
\* errorMessage is a new object: id, role, content, isError, no isLoading
RejectById(prev, loadingMessageId, t) ==
  Append(SelectSeq(prev, LAMBDA msg : msg.id # loadingMessageId),
         Message(loadingMessageId, "assistant", <<Part("error", 0, "")>>, FALSE, TRUE, t))

\* finally { setIsLoading(false) } resp. setIsSearching(false)
Finally(T) ==
  IF T.path = "search"
  THEN isSearching' = FALSE /\ UNCHANGED isLoading
  ELSE isLoading' = FALSE /\ UNCHANGED isSearching

\* a handler that has returned keeps nothing but its outcome and the id it resolved
Finished(T, outcome) ==
  Turn(T.path, outcome, 0, T.loadingId, "", <<>>, 0, <<>>, <<>>, "")

ProviderResolved(t) ==
  /\ t \in 1..Len(turns)
  /\ turns[t].pc = "provider"
  /\ \E outcome \in SearchOutcomes :
       messages' = ResolveById(messages, turns[t].loadingId,
                               ResponseContent(turns[t], outcome))
  /\ Finally(turns[t])
  /\ turns' = [turns EXCEPT ![t] = Finished(turns[t], "done")]
  /\ UNCHANGED <<auxVars, variant, batches, alerts, detected, rendered, serviceAvailable, clock, input, uploadedFiles,
                 isWebSearchEnabled, provider, model, panelFiles, usedFiles, analyses>>

ProviderRejected(t) ==
  /\ t \in 1..Len(turns)
  /\ turns[t].pc = "provider"
  /\ messages' = RejectById(messages, turns[t].loadingId, t)
  /\ Finally(turns[t])
  /\ turns' = [turns EXCEPT ![t] = Finished(turns[t], "failed")]
  /\ UNCHANGED <<auxVars, variant, batches, alerts, detected, rendered, serviceAvailable, clock, input, uploadedFiles,
                 isWebSearchEnabled, provider, model, panelFiles, usedFiles, analyses>>

\* ---- specification --------------------------------------------------------
Next ==
  \/ Tick
  \/ \E t \in Texts : handleInputChange(t)
  \/ \E p \in Providers : handleProviderChange(p)
  \/ ToggleWebSearch
  \/ \E f \in FileIds : processFiles(f)
  \/ \E f \in FileIds : removeFile(f)
  \/ ClosePanel
  \/ \E f \in FileIds : analyzeFile(f)
  \/ \E a \in analyses, uploaded \in BOOLEAN : analyzeFileResolved(a, uploaded)
  \/ \E a \in analyses : analyzeFileRejected(a)
  \/ Len(turns) < MaxTurns /\ handleWebSearch
  \/ Len(turns) < MaxTurns /\ handleGenerateImage
  \/ Len(turns) < MaxTurns /\ handleSendMessageWithUploads
  \/ Len(turns) < MaxTurns /\ handleSendMessageRegular
  \/ Len(turns) < MaxTurns /\ handleSendMessageDirect
  \/ Len(turns) < MaxTurns /\ handleSendMessageAnalyze
  \/ \E t \in 1..MaxTurns, ok \in BOOLEAN : analyzeFilesWithAI(t, ok)
  \/ \E t \in 1..MaxTurns : ProviderResolved(t)
  \/ \E t \in 1..MaxTurns : ProviderRejected(t)

Spec == Init /\ [][Next]_vars

\* ---- vocabulary of the properties -----------------------------------------
Indices(msgs) == 1..Len(msgs)

\* the entries that are loading
Loading(msgs) == {msgs[i] : i \in {j \in Indices(msgs) : msgs[j].isLoading}}

\* the entries of msgs that satisfy no longer "loading" in the next transcript
StoppedLoading == Loading(messages) \ Loading(messages')

InFlight(t) == t \in 1..Len(turns) /\ turns[t].pc = "provider"
Settled(t)  == t \in 1..Len(turns) /\ turns[t].pc \in {"done", "failed"}

\* this step is the continuation that runs when turn t's collaborator call settles
Settles(t) == InFlight(t) /\ turns'[t].pc \in {"done", "failed"}
Rejects(t) == InFlight(t) /\ turns'[t].pc = "failed"

\* this step issues the provider call of turn t
IssuesCall(t) ==
  /\ t \in 1..Len(turns')
  /\ turns'[t].pc = "provider"
  /\ (t > Len(turns) \/ turns[t].pc # "provider")

\* this step is the one in which handleSendMessage accepts turn t
Accepts(t) == t = Len(turns) + 1 /\ Len(turns') = t

WithId(msgs, id)    == SelectSeq(msgs, LAMBDA m : m.id = id)
WithoutId(msgs, id) == SelectSeq(msgs, LAMBDA m : m.id # id)
EntriesOf(msgs, t, role) == SelectSeq(msgs, LAMBDA m : m.turn = t /\ m.role = role)

\* ---- C1 --------------------------------------------------------------------
\* C1: when the collaborator call of a turn settles, exactly one entry stops
\* loading, namely the placeholder that this turn created (same id), and in no
\* other step does any entry stop loading.
C1_OnePlaceholderPerTurn ==
  [][ /\ \A t \in 1..Len(turns) :
           Settles(t) =>
             /\ Cardinality(StoppedLoading) = 1
             /\ \A m \in StoppedLoading : m.turn = t /\ m.id = turns[t].loadingId
      /\ (\A t \in 1..Len(turns) : ~Settles(t)) => StoppedLoading = {}
    ]_vars

\* ---- C2 --------------------------------------------------------------------
\* C2: an entry never leaves the position at which it was appended and is never
\* removed: position i of the transcript holds the same entry (same id, same
\* turn, same role) after every step.
C2_PositionsFixed ==
  [][ \A i \in Indices(messages) :
        /\ i <= Len(messages')
        /\ messages'[i].id = messages[i].id
        /\ messages'[i].turn = messages[i].turn
        /\ messages'[i].role = messages[i].role
    ]_vars

\* ---- C3 --------------------------------------------------------------------
\* C3: once the collaborator call of a turn has settled, resolved or rejected,
\* on the chat, image and web-search paths alike, no entry of that turn is
\* still loading.
C3_SettledNotLoading ==
  \A t \in 1..Len(turns) :
    Settled(t) => \A i \in Indices(messages) :
                    messages[i].turn = t => ~messages[i].isLoading

\* a rejected turn of one path next to a resolved turn of another path
C3_Witness ==
  \E t, u \in 1..Len(turns) :
    /\ turns[t].pc = "failed" /\ turns[u].pc = "done"
    /\ turns[t].path # turns[u].path
    /\ \E i \in Indices(messages) : messages[i].turn = t /\ messages[i].isError

AnalysisInProgress(calls, activations, f) ==
  \/ \E a \in calls : a.fid = f
  \/ \E u \in 1..Len(activations) :
       /\ activations[u].pc = "analyzing"
       /\ activations[u].files[activations[u].idx].id = f

\* C5: the provider call of a chat turn is never issued while the analysis of
\* one of the files attached to that turn is in progress.
C5_CallAwaitsAnalysis ==
  [][ \A t \in 1..Len(turns') :
        IssuesCall(t) =>
          \A i \in 1..Len(turns'[t].files) :
            ~AnalysisInProgress(analyses', turns', turns'[t].files[i].id)
    ]_vars

\* ---- C6 --------------------------------------------------------------------
\* C6: the steps of a chat turn come in the order user entry, file analysis,
\* placeholder, provider call, resolution: while the files of a turn are being
\* analyzed its user entry is in the transcript and its placeholder is not yet,
\* and while the provider is being called both are.
C6_UserEntryBeforeAnalysis ==
  \A t \in 1..Len(turns) :
    /\ turns[t].pc = "analyzing" =>
         /\ Len(EntriesOf(messages, t, "user")) = 1
         /\ Len(EntriesOf(messages, t, "assistant")) = 0
    /\ turns[t].pc = "provider" => Len(EntriesOf(messages, t, "user")) = 1

\* ---- C7 --------------------------------------------------------------------
StatusOf(files, f) ==
  IF \E i \in 1..Len(files) : files[i].id = f
  THEN (CHOOSE x \in {files[i] : i \in 1..Len(files)} : x.id = f).analysisStatus
  ELSE "absent"

AllAnalyzed(files) ==
  /\ files # <<>>
  /\ \A i \in 1..Len(files) : files[i].analysisStatus \in {"completed", "error"}

C9_UserEntryHasNoFileContent ==
  \A i \in Indices(messages) :
    messages[i].role = "user" =>
      \A j \in 1..Len(messages[i].content) :
        messages[i].content[j].k \notin {"raw", "analysis", "analysisfailed"}

\* ---- C10 -------------------------------------------------------------------
\* C10: the step in which a chat turn is accepted leaves the input text empty
\* and the staging area empty, before any call of that turn has settled.
C10_ClearedOnAccept ==
  [][ \A t \in 1..MaxTurns :
        (Accepts(t) /\ turns'[t].path = "chat") =>
          input' = "" /\ uploadedFiles' = <<>>
    ]_vars

\* ---- C11 -------------------------------------------------------------------
\* the path the dispatch of handleSendMessage has to take from this state
ExpectedPath ==
  IF isWebSearchEnabled /\ Trim(input) # "" THEN "search"
  ELSE IF provider = "rapidapi" THEN "image"
  ELSE "chat"

\* C11: a submit runs exactly one path, chosen by priority: web search when the
\* mode is on and the text is not blank, else image generation when the
\* provider is the image provider, else chat.  No step starts two turns, and
\* the entries a step appends all belong to the turn it started.
C11_PathByPriority ==
  [][ /\ Len(turns') <= Len(turns) + 1
      /\ \A t \in 1..MaxTurns :
           Accepts(t) =>
             /\ turns'[t].path = ExpectedPath
             /\ \A i \in (Len(messages) + 1)..Len(messages') : messages'[i].turn = t
    ]_vars

\* a web-search turn that was started while the image provider was selected
C11_Witness ==
  \E t \in 1..Len(turns) :
    /\ turns[t].path = "search" /\ turns[t].pc = "provider"
    /\ turns[t].prov = "rapidapi"
    /\ \E i \in Indices(messages) : messages[i].turn = t /\ messages[i].isLoading

\* ---- C12 -------------------------------------------------------------------
\* C12: from a state whose input text is blank and whose staging area is empty
\* no step starts a turn (nothing is appended for it, no collaborator is
\* called), and from a state whose input text is blank the only turn a step
\* can start is a chat turn: staged files alone never start a web-search or
\* an image-generation turn.
C12_BlankSubmitIsNoOp ==
  [][ /\ (Trim(input) = "" /\ uploadedFiles = <<>>) =>
           /\ Len(turns') = Len(turns)
           /\ (Len(messages') > Len(messages) =>
                 \E t \in 1..Len(turns) : turns[t].pc = "analyzing")
      /\ Trim(input) = "" =>
           \A t \in 1..MaxTurns : Accepts(t) => turns'[t].path = "chat"
    ]_vars

\* the send button is enabled over a whitespace-only input and an empty staging
\* area, after a chat turn that was submitted with files and a blank text
C12_Witness ==
  /\ InputEnabled /\ Len(turns) < MaxTurns
  /\ input = " " /\ uploadedFiles = <<>>
  /\ \E i \in Indices(messages) :
       /\ messages[i].role = "user"
       /\ Len(messages[i].content) > 1
       /\ messages[i].content[1].k = "text" /\ Trim(messages[i].content[1].t) = ""

\* ---- C13 -------------------------------------------------------------------
\* turn t is a chat turn with a non-blank text and no files, awaiting the provider
PlainChatInFlight(t) ==
  /\ InFlight(t)
  /\ turns[t].path = "chat"
  /\ Trim(turns[t].text) # "" /\ turns[t].files = <<>>

\* C13: a chat turn with a non-blank text and no files appends exactly two
\* entries, its user entry and right after it its assistant entry, and when
\* the text-generation call resolves that assistant entry holds the response
\* text and is not loading, the turn still having exactly these two entries.
C13_PlainTurnAddsTwoEntries ==
  [][ \A t \in 1..MaxTurns :
        /\ (IssuesCall(t) /\ turns'[t].path = "chat"
              /\ Trim(turns'[t].text) # "" /\ turns'[t].files = <<>>) =>
             /\ Len(messages') = Len(messages) + 2
             /\ SubSeq(messages', 1, Len(messages)) = messages
             /\ LET u == messages'[Len(messages) + 1]
                    a == messages'[Len(messages) + 2]
                IN /\ u.role = "user" /\ u.turn = t
                   /\ u.content = <<Part("text", 0, turns'[t].text)>>
                   /\ a.role = "assistant" /\ a.turn = t /\ a.isLoading
        /\ (PlainChatInFlight(t) /\ turns'[t].pc = "done") =>
             /\ Len(messages') = Len(messages)
             /\ Len(EntriesOf(messages', t, "user")) = 1
             /\ Len(EntriesOf(messages', t, "assistant")) = 1
             /\ LET a == EntriesOf(messages', t, "assistant")[1]
                IN /\ a.content = <<Part("response", 0, "")>>
                   /\ ~a.isLoading /\ ~a.isError
             /\ \E i \in 1..(Len(messages') - 1) :
                  /\ messages'[i].turn = t /\ messages'[i].role = "user"
                  /\ messages'[i + 1].turn = t /\ messages'[i + 1].role = "assistant"
    ]_vars

\* ---- C14 -------------------------------------------------------------------
\* C14: the entries of the transcript have pairwise distinct ids in every
\* reachable state.
C14_IdsDistinct ==
  \A i, j \in Indices(messages) : i # j => messages[i].id # messages[j].id

\* ---- C15 -------------------------------------------------------------------
\* C15: when the provider call of a chat turn is issued, the payload is the
\* conversation history, cut to its 10 most recent messages and in transcript
\* order, followed by the current turn as the last element; for a turn that
\* is accepted and sent in one step the history is the transcript before it.
C15_PayloadIsHistoryThenTurn ==
  [][ \A t \in 1..MaxTurns :
        (IssuesCall(t) /\ turns'[t].path = "chat") =>
          LET payload == turns'[t].payload
              own     == EntriesOf(messages', t, "user")
          IN /\ Len(payload) >= 1
             /\ Len(own) = 1
             /\ payload[Len(payload)].role = "user"
             /\ Accepts(t) =>
                  /\ Len(payload) = Len(LastN(messages, 10)) + 1
                  /\ \A i \in 1..(Len(payload) - 1) :
                       /\ payload[i].role = LastN(messages, 10)[i].role
                       /\ payload[i].content = LastN(messages, 10)[i].content
    ]_vars

\* ---- staging of several files ----------------------------------------------
MaxStaged == 2     \* files the user picks in the behaviours of SpecFiles
StagedIds == 1..MaxStaged

\* the upload panel with several files and the chat path of the submit
NextFiles ==
  \/ \E t \in {"hi", "analyze"} : handleInputChange(t)
  \/ \E p \in {"openrouter", "google"} : handleProviderChange(p)
  \/ \E f \in StagedIds : processFiles(f)
  \/ \E f \in StagedIds : analyzeFile(f)
  \/ \E a \in analyses, uploaded \in BOOLEAN : analyzeFileResolved(a, uploaded)
  \/ \E a \in analyses : analyzeFileRejected(a)
  \/ Len(turns) < MaxTurns /\ handleSendMessageWithUploads
  \/ Len(turns) < MaxTurns /\ handleSendMessageRegular
  \/ Len(turns) < MaxTurns /\ handleSendMessageDirect
  \/ Len(turns) < MaxTurns /\ handleSendMessageAnalyze
  \/ \E t \in 1..MaxTurns, ok \in BOOLEAN : analyzeFilesWithAI(t, ok)
  \/ \E t \in 1..MaxTurns : ProviderResolved(t)
  \/ \E t \in 1..MaxTurns : ProviderRejected(t)

SpecFiles == Init /\ [][NextFiles]_vars

\* ---- C16 -------------------------------------------------------------------
\* the pieces of a payload element that carry something of file f
BlocksOf(content, f) ==
  SelectSeq(content, LAMBDA part : part.f = f /\
                       part.k \in {"analysis", "raw", "placeholder", "fileref"})

\* C16: when the provider call of a chat turn is issued, every file attached
\* to the turn has a block in the current element of the payload: its
\* analysis text, its raw content, a placeholder line or the uploaded file.
C16_EveryFileInPayload ==
  [][ \A t \in 1..MaxTurns :
        (IssuesCall(t) /\ turns'[t].path = "chat") =>
          LET payload == turns'[t].payload
              current == payload[Len(payload)].content
          IN \A i \in 1..Len(turns'[t].files) :
               BlocksOf(current, turns'[t].files[i].id) # <<>>
    ]_vars

\* ---- C17 -------------------------------------------------------------------
\* the part_005 build with its analysis service, several files in a batch
InitBatch == Init /\ variant = "part_005" /\ serviceAvailable

NextBatch ==
  \/ Tick
  \/ \E t \in {"hi", "analyze"} : handleInputChange(t)
  \/ \E f \in StagedIds : processFiles(f)
  \/ \E f \in StagedIds : removeFile(f)
  \/ Len(turns) < MaxTurns /\ handleSendMessageDirect
  \/ Len(turns) < MaxTurns /\ handleSendMessageAnalyze
  \/ \E t \in 1..MaxTurns, ok \in BOOLEAN : analyzeFilesWithAI(t, ok)
  \/ \E t \in 1..MaxTurns : ProviderResolved(t)
  \/ \E t \in 1..MaxTurns : ProviderRejected(t)

SpecBatch == InitBatch /\ [][NextBatch]_vars

\* the first n files of the batch each have their own outcome, in order
OutcomePerFile(T, n) ==
  /\ Len(T.analysisText) = n
  /\ \A i \in 1..n :
       /\ T.analysisText[i].f = T.files[i].id
       /\ T.analysisText[i].k \in {"analysis", "analysisfailed"}

\* C17: in a batch the failure of one file stops nothing: while the batch is
\* being analyzed every file before the current one has its own outcome and
\* there is a current file to go on with, and when the provider call of the
\* turn has been issued every file of the batch has its own outcome.
C17_FailureIsPerFile ==
  \A t \in 1..Len(turns) :
    /\ turns[t].pc = "analyzing" =>
         /\ turns[t].idx \in 1..Len(turns[t].files)
         /\ OutcomePerFile(turns[t], turns[t].idx - 1)
    /\ (turns[t].pc = "provider" /\ turns[t].analysisText # <<>>) =>
         OutcomePerFile(turns[t], Len(turns[t].files))

\* the provider call is out for a batch whose first file failed and whose
\* second file was analyzed
C17_Witness ==
  \E t \in 1..Len(turns) :
    /\ turns[t].pc = "provider" /\ Len(turns[t].files) >= 2
    /\ Len(turns[t].analysisText) >= 2
    /\ turns[t].analysisText[1].k = "analysisfailed"
    /\ turns[t].analysisText[2].k = "analysis"

\* ---- FileAnalysisService.analyzeFile ---------------------------------------
\* one call of the service: where it stands, whether isServiceAvailable(),
\* whether the result on its way carries the uploaded file, which analysis text
ServiceCall(pc, available, uploaded, analysis) ==
  [pc |-> pc, available |-> available, uploadedFile |-> uploaded, analysis |-> analysis]

\* the service is entered for an analyzeFile call of the panel:
\* if (!this.isServiceAvailable()) return await this.analyzeFileBasic(file)
ServiceAnalyzeFile(f, available) ==
  /\ \E a \in analyses : a.fid = f
  /\ f \notin DOMAIN svc
  /\ \A g \in DOMAIN svc : svc[g].available = available   \* fixed by the constructor
  /\ svc' = [g \in DOMAIN svc \cup {f} |->
               IF g = f
               THEN ServiceCall(IF available THEN "upload" ELSE "basic",
                                available, FALSE, "none")
               ELSE svc[g]]
  /\ UNCHANGED <<chatVars, uploadCall, bubbleVars, runVars>>

\* a basic analysis whose failing file read is not caught
AfterStep_BasicThrows(call, f, ok) ==
  CASE call.pc = "upload" ->
         IF ok THEN [call EXCEPT !.pc = "analyzeUploaded"]
               ELSE [call EXCEPT !.pc = "local"]
    [] call.pc = "analyzeUploaded" ->
         IF ~ok THEN [call EXCEPT !.pc = "local"]
         ELSE IF FileType(f) = "text" THEN [call EXCEPT !.pc = "readText"]
         ELSE [call EXCEPT !.pc = "returned", !.uploadedFile = TRUE, !.analysis = "ai"]
    [] call.pc = "readText" ->
         IF ok THEN [call EXCEPT !.pc = "returned", !.uploadedFile = TRUE, !.analysis = "ai"]
               ELSE [call EXCEPT !.pc = "local"]
    [] call.pc = "local" ->
         IF ok THEN [call EXCEPT !.pc = "returned", !.analysis = "local"]
               ELSE [call EXCEPT !.pc = "basic"]
    [] call.pc = "basic" ->
         IF ok THEN [call EXCEPT !.pc = "returned", !.analysis = "basic"]
               ELSE [call EXCEPT !.pc = "threw"]
    [] OTHER -> call

\* the awaited step of the call settles, resolved (ok) or rejected:
\* upload, analysis of the uploaded file and the local read fall back to
\* analyzeFileLocally, that falls back to analyzeFileBasic, which catches the
\* failure of its own file read and always returns
AfterStep(call, f, ok) ==
  CASE call.pc = "upload" ->
         IF ok THEN [call EXCEPT !.pc = "analyzeUploaded"]
               ELSE [call EXCEPT !.pc = "local"]
    [] call.pc = "analyzeUploaded" ->
         IF ~ok THEN [call EXCEPT !.pc = "local"]
         ELSE IF FileType(f) = "text" THEN [call EXCEPT !.pc = "readText"]
         ELSE [call EXCEPT !.pc = "returned", !.uploadedFile = TRUE, !.analysis = "ai"]
    [] call.pc = "readText" ->
         IF ok THEN [call EXCEPT !.pc = "returned", !.uploadedFile = TRUE, !.analysis = "ai"]
               ELSE [call EXCEPT !.pc = "local"]
    [] call.pc = "local" ->
         IF ok THEN [call EXCEPT !.pc = "returned", !.analysis = "local"]
               ELSE [call EXCEPT !.pc = "basic"]
    [] call.pc = "basic" ->
         [call EXCEPT !.pc = "returned", !.analysis = "basic"]
    [] OTHER -> call

ServiceStep(f, ok) ==
  /\ f \in DOMAIN svc
  /\ svc[f].pc \notin {"returned", "threw"}
  /\ svc' = [svc EXCEPT ![f] = AfterStep(svc[f], f, ok)]
  /\ UNCHANGED <<chatVars, uploadCall, bubbleVars, runVars>>

\* the panel's analyzeFile goes on after `await analysisService.analyzeFile(file)`
\* with the result the service returned (its catch branch, analyzeFileRejected,
\* needs a call that throws)
analyzeFileSettled(a) ==
  /\ a.fid \in DOMAIN svc
  /\ svc[a.fid].pc = "returned"
  /\ analyzeFileResolved(a, svc[a.fid].uploadedFile)

\* the ChatInterface.tsx build with its upload panel and the analysis service
InitAnalysis == Init /\ variant = "ChatInterface" /\ serviceAvailable

NextAnalysis ==
  \/ \E f \in StagedIds : processFiles(f)
  \/ \E f \in StagedIds : removeFile(f)
  \/ ClosePanel
  \/ \E f \in StagedIds : analyzeFile(f)
  \/ \E f \in StagedIds, available \in BOOLEAN : ServiceAnalyzeFile(f, available)
  \/ \E f \in StagedIds, ok \in BOOLEAN : ServiceStep(f, ok)
  \/ \E a \in analyses : analyzeFileSettled(a)

SpecAnalysis == InitAnalysis /\ [][NextAnalysis]_vars

\* ---- C18 -------------------------------------------------------------------
Descriptors(files, f) == SelectSeq(files, LAMBDA x : x.id = f)

MaxBlocks == 2     \* segments of a message text

\* SUPPORTED_LANGUAGES.flatMap(lang => lang.aliases)
SupportedAliases ==
  {"javascript", "js", "node", "nodejs", "node.js", "python", "py", "python3",
   "python2", "py2", "typescript", "ts", "java", "csharp", "cs", "cpp", "c++",
   "c", "bash", "sh", "shell", "sql", "kotlin", "kt", "swift", "php", "rust",
   "rs", "ruby", "rb"}

\* the tags and the code texts of the fenced blocks of the model
FenceTags  == {"", "python", "Python", "xyz"}
FenceCodes == {"x", " x"}

\* String.prototype.toLowerCase / trim on these
ToLowerCase(s) ==
  CASE s = "Python" -> "python"
    [] s = "PY"     -> "py"
    [] s = "Shell"  -> "shell"
    [] OTHER        -> s
TrimCode(c)    == IF c = " x" THEN "x" ELSE c

\* a message text is a sequence of segments: plain text, or a block that the
\* regular expression ```(\w*)\n([\s\S]*?)\n``` matches (both scans use it)
Segments ==
  {[fence |-> FALSE, tag |-> "", body |-> "t"]} \cup
  {[fence |-> TRUE, tag |-> tag, body |-> code] : tag \in FenceTags, code \in FenceCodes}

RECURSIVE SeqsUpTo(_, _)
SeqsUpTo(S, n) ==
  IF n = 0 THEN {<<>>}
  ELSE SeqsUpTo(S, n - 1) \cup
       {Append(s, x) : s \in {q \in SeqsUpTo(S, n - 1) : Len(q) = n - 1}, x \in S}

Contents == SeqsUpTo(Segments, MaxBlocks)

\* processMessageContent: runnable blocks become code elements, other blocks
\* and the text around them become text elements
processMessageContent(content) ==
  MapSeq(content, LAMBDA seg :
    IF ~seg.fence THEN [type |-> "text", content |-> seg.body, language |-> ""]
    ELSE LET language == seg.tag
             isRunnable == (IF ToLowerCase(language) # "" THEN ToLowerCase(language)
                            ELSE "plaintext") \in SupportedAliases
         IN IF isRunnable
            THEN [type |-> "code", content |-> seg.body,
                  language |-> IF language # "" THEN language ELSE "plaintext"]
            ELSE [type |-> "text", content |-> seg.body, language |-> ""])

\* runnableCodeBlocks: the blocks handed to the workspace by View Code
runnableCodeBlocks(content) ==
  LET fences == SelectSeq(content, LAMBDA seg : seg.fence)
      kept == SelectSeq(fences, LAMBDA seg :
                seg.tag = "" \/
                (IF ToLowerCase(seg.tag) # "" THEN ToLowerCase(seg.tag) ELSE "plaintext")
                   \in SupportedAliases)
  IN MapSeq(kept, LAMBDA seg :
       [code |-> TrimCode(seg.body),
        language |-> IF ToLowerCase(seg.tag) # "" THEN ToLowerCase(seg.tag)
                     ELSE "plaintext"])

\* a bubble is rendered for a message text: both memos are computed
RenderMessage(content) ==
  /\ mdContent' = content
  /\ mdElements' = processMessageContent(content)
  /\ mdBlocks' = runnableCodeBlocks(content)
  /\ UNCHANGED <<chatVars, uploadCall, svc, runVars>>

NextBubble == \E content \in Contents : RenderMessage(content)

SpecBubble == Init /\ [][NextBubble]_vars

\* ---- C19 -------------------------------------------------------------------
\* the fragments the render-time scan shows as runnable code
RenderedFragments(elements) ==
  MapSeq(SelectSeq(elements, LAMBDA e : e.type = "code"),
         LAMBDA e : [code |-> e.content, language |-> e.language])

\* C19: for every message text the render-time scan and the workspace-handoff
\* scan yield the same fragments, same code and same language in the same
\* order.
C19_ScansAgree == RenderedFragments(mdElements) = mdBlocks

\* ---- code workspace: MainWorkspace and ChatInterface.handleRunCode ---------
MaxRuns == 2       \* executions started in a behaviour

\* the code of a fragment, by the input-reading call it contains
CodeKinds == {"plain", "input(", "nextInt("}
WsInputs  == {"", " ", "5"}

\* a run handler that tests the code against the auto-detect effect's list only
NeedsInput_MountList(code) == code \in {"input("}

\* code.includes('input(') || ... || code.includes('next(')   (handleRunCode)
NeedsInput(code) == code \in {"input(", "nextInt("}
\* the shorter list of the auto-detect effect
NeedsInputOnMount(code) == code \in {"input("}

\* what executeCode resolves with: which sections of the result are non-empty
ExecutionResults == [stdout : BOOLEAN, stderr : BOOLEAN,
                     compile_output : BOOLEAN, message : BOOLEAN]

\* an output that reports the error stream ahead of the standard output
BuildOutput_ErrorFirst(stdin, result) ==
  LET output == (IF stdin # "" THEN <<"Input">> ELSE <<>>) \o
                (IF result.stderr THEN <<"Error">> ELSE <<>>) \o
                (IF result.stdout THEN <<"Output">> ELSE <<>>) \o
                (IF result.compile_output THEN <<"Compile Output">> ELSE <<>>) \o
                (IF result.message THEN <<"Message">> ELSE <<>>)
  IN IF output = <<>> THEN <<"Code executed successfully with no output">> ELSE output

\* the output text of a successful run, as the list of its sections
BuildOutput(stdin, result) ==
  LET output == (IF stdin # "" THEN <<"Input">> ELSE <<>>) \o
                (IF result.stdout THEN <<"Output">> ELSE <<>>) \o
                (IF result.stderr THEN <<"Error">> ELSE <<>>) \o
                (IF result.compile_output THEN <<"Compile Output">> ELSE <<>>) \o
                (IF result.message THEN <<"Message">> ELSE <<>>)
  IN IF output = <<>> THEN <<"Code executed successfully with no output">> ELSE output

\* useEffect(..., [executionState]): the mounted workspace merges the parent's
\* state into its own
MergedLocal(parentState) ==
  IF showWorkspace THEN parentState ELSE localExecutionState

\* View Code on a message bubble: the workspace is mounted over the chat
handleViewCode(code) ==
  /\ ~showWorkspace
  /\ workspaceFiles' = <<[code |-> code]>>
  /\ showWorkspace' = TRUE
  /\ executionState' = ExecutionState(FALSE, <<>>)
  /\ localExecutionState' = ExecutionState(FALSE, <<>>)
  /\ wsInput' = ""
  /\ isInputExpanded' = NeedsInputOnMount(code)
  /\ UNCHANGED <<chatVars, uploadCall, svc, bubbleVars, runs>>

\* onClose: the workspace is unmounted, its own state is gone
CloseWorkspace ==
  /\ showWorkspace
  /\ showWorkspace' = FALSE
  /\ localExecutionState' = ExecutionState(FALSE, <<>>)
  /\ wsInput' = ""
  /\ isInputExpanded' = FALSE
  /\ UNCHANGED <<chatVars, uploadCall, svc, bubbleVars, workspaceFiles, executionState, runs>>

ToggleInput ==
  /\ showWorkspace
  /\ isInputExpanded' = ~isInputExpanded
  /\ UNCHANGED <<chatVars, uploadCall, svc, bubbleVars, showWorkspace, workspaceFiles,
                 executionState, localExecutionState, wsInput, runs>>

SetWsInput(t) ==
  /\ showWorkspace /\ isInputExpanded
  /\ t # wsInput
  /\ wsInput' = t
  /\ UNCHANGED <<chatVars, uploadCall, svc, bubbleVars, showWorkspace, workspaceFiles,
                 executionState, localExecutionState, isInputExpanded, runs>>

\* the Run button is disabled={localExecutionState.isRunning}; Ctrl+Enter, in
\* the input box of the expanded input panel, is not
RunTriggered(byKey) ==
  /\ showWorkspace
  /\ Len(runs) < MaxRuns
  /\ \/ byKey /\ isInputExpanded
     \/ ~byKey /\ ~localExecutionState.isRunning

\* MainWorkspace.handleRunCode: the code reads input and the box is blank
handleRunCodeNeedsInput(byKey) ==
  /\ RunTriggered(byKey)
  /\ NeedsInput(workspaceFiles[1].code) /\ Trim(wsInput) = ""
  /\ localExecutionState' = ExecutionState(FALSE, <<"This code needs input">>)
  /\ isInputExpanded' = TRUE
  /\ UNCHANGED <<chatVars, uploadCall, svc, bubbleVars, showWorkspace, workspaceFiles,
                 executionState, wsInput, runs>>

\* MainWorkspace.handleRunCode and, through onRunCode, ChatInterface.handleRunCode
\* up to `await CodeExecutionService.executeCode(...)`
handleRunCode(byKey) ==
  /\ RunTriggered(byKey)
  /\ ~(NeedsInput(workspaceFiles[1].code) /\ Trim(wsInput) = "")
  /\ executionState' = ExecutionState(TRUE, <<"Running code...">>)
  /\ localExecutionState' = ExecutionState(TRUE, <<"Running code...">>)
  /\ runs' = Append(runs, [pc |-> "executing", stdin |-> wsInput])
  /\ UNCHANGED <<chatVars, uploadCall, svc, bubbleVars, showWorkspace, workspaceFiles,
                 wsInput, isInputExpanded>>

\* a catch branch that reports the error and leaves the run marked as running
RunSettled_FailureKeepsRunning(r, ok, result) ==
  /\ r \in 1..Len(runs)
  /\ runs[r].pc = "executing"
  /\ LET settled == IF ok THEN ExecutionState(FALSE, BuildOutput(runs[r].stdin, result))
                          ELSE ExecutionState(TRUE, <<"Error">>)
     IN /\ executionState' = settled
        /\ localExecutionState' = MergedLocal(settled)
  /\ runs' = [runs EXCEPT ![r] = [pc |-> "done", stdin |-> ""]]
  /\ UNCHANGED <<chatVars, uploadCall, svc, bubbleVars, showWorkspace, workspaceFiles,
                 wsInput, isInputExpanded>>

\* ChatInterface.handleRunCode after its await: the try branch builds the
\* output, the catch branch the error text; both set isRunning to false
RunSettled(r, ok, result) ==
  /\ r \in 1..Len(runs)
  /\ runs[r].pc = "executing"
  /\ LET settled == IF ok THEN ExecutionState(FALSE, BuildOutput(runs[r].stdin, result))
                          ELSE ExecutionState(FALSE, <<"Error">>)
     IN /\ executionState' = settled
        /\ localExecutionState' = MergedLocal(settled)
  /\ runs' = [runs EXCEPT ![r] = [pc |-> "done", stdin |-> ""]]
  /\ UNCHANGED <<chatVars, uploadCall, svc, bubbleVars, showWorkspace, workspaceFiles,
                 wsInput, isInputExpanded>>

NoResult == [stdout |-> FALSE, stderr |-> FALSE, compile_output |-> FALSE, message |-> FALSE]

NextRun ==
  \/ \E code \in CodeKinds : handleViewCode(code)
  \/ CloseWorkspace
  \/ ToggleInput
  \/ \E t \in WsInputs : SetWsInput(t)
  \/ \E byKey \in BOOLEAN : handleRunCodeNeedsInput(byKey)
  \/ \E byKey \in BOOLEAN : handleRunCode(byKey)
  \/ \E r \in 1..MaxRuns, result \in ExecutionResults : RunSettled(r, TRUE, result)
  \/ \E r \in 1..MaxRuns : RunSettled(r, FALSE, NoResult)

SpecRun == Init /\ [][NextRun]_vars

\* ---- C20 -------------------------------------------------------------------
Executing(rs) == {r \in 1..Len(rs) : rs[r].pc = "executing"}

\* C20: the step that starts an execution sets isRunning with a placeholder
\* output, in the orchestrator and in the workspace, before the call is
\* awaited; the step in which the call settles, resolved or rejected, sets
\* isRunning to false in both; and isRunning is never true without an
\* execution that is still outstanding.
C20_IsRunningAlwaysReset ==
  [][ /\ Len(runs') > Len(runs) =>
           /\ executionState' = ExecutionState(TRUE, <<"Running code...">>)
           /\ localExecutionState'.isRunning
           /\ localExecutionState'.output \in {<<"Running code...">>, <<"Executing code...">>}
      /\ \A r \in Executing(runs) \ Executing(runs') :
           /\ ~executionState'.isRunning
           /\ ~localExecutionState'.isRunning
      /\ executionState'.isRunning => Executing(runs') # {}
      /\ localExecutionState'.isRunning => Executing(runs') # {}
    ]_vars

\* a run has been rejected and shows its error text, not running, in the open
\* workspace, after another run had been started by the keyboard
C20_Witness ==
  /\ showWorkspace
  /\ Len(runs) = 2 /\ Executing(runs) = {}
  /\ executionState = ExecutionState(FALSE, <<"Error">>)
  /\ localExecutionState = executionState

\* ---- C21 -------------------------------------------------------------------
\* C21: while the open workspace holds a fragment that contains an
\* input-reading call and the input box is blank, no step starts an execution
\* and no step sets isRunning, in the orchestrator or in the workspace; the
\* step that handles the run request sets the workspace's output to the fixed
\* needs-input message with isRunning false, expands the input panel and leaves
\* the orchestrator's execution state alone.
C21_NoRunWithoutInput ==
  [][ (showWorkspace /\ workspaceFiles[1].code \in {"input(", "nextInt("}
         /\ wsInput \in {"", " "}) =>
        /\ Len(runs') = Len(runs)
        /\ executionState'.isRunning => executionState.isRunning
        /\ localExecutionState'.isRunning => localExecutionState.isRunning
        /\ (showWorkspace' /\ runs' = runs
              /\ localExecutionState' # localExecutionState) =>
             /\ localExecutionState' = ExecutionState(FALSE, <<"This code needs input">>)
             /\ isInputExpanded'
             /\ executionState' = executionState
    ]_vars

\* a run of a nextInt( fragment was requested with a blank input box: the
\* needs-input message is shown, the panel is open, nothing was executed
C21_Witness ==
  /\ showWorkspace
  /\ workspaceFiles[1].code = "nextInt("
  /\ Trim(wsInput) = ""
  /\ localExecutionState = ExecutionState(FALSE, <<"This code needs input">>)
  /\ isInputExpanded
  /\ runs = <<>>
  /\ ~executionState.isRunning

\* ---- C22 -------------------------------------------------------------------
\* ChatInterface.handleRunCode from the resolution of executeCode to its
\* setExecutionState, as one step on the call's arguments and result; the call
\* is kept with the output it produced
handleRunCodeResolved(stdin, result) ==
  /\ Len(runs) < MaxRuns
  /\ LET output == BuildOutput(stdin, result)
     IN /\ executionState' = ExecutionState(FALSE, output)
        /\ runs' = Append(runs, [pc |-> "done", stdin |-> stdin,
                                 result |-> result, output |-> output])
  /\ UNCHANGED <<chatVars, uploadCall, svc, bubbleVars, showWorkspace, workspaceFiles,
                 localExecutionState, wsInput, isInputExpanded>>

NextOutput ==
  \E stdin \in WsInputs, result \in ExecutionResults : handleRunCodeResolved(stdin, result)

SpecOutput == Init /\ [][NextOutput]_vars

SectionOrder == <<"Input", "Output", "Error", "Compile Output", "Message">>

\* the sections of SectionOrder that a call has something to show for
NonEmptySections(stdin, result) ==
  {i \in 1..5 : \/ i = 1 /\ stdin # ""
                \/ i = 2 /\ result.stdout
                \/ i = 3 /\ result.stderr
                \/ i = 4 /\ result.compile_output
                \/ i = 5 /\ result.message}

\* C22: the output of a successful run holds one section for each non-empty
\* part of the call (echoed input, stdout, stderr, compile output, message),
\* no section for an empty part, and the sections in that order; a result with
\* only stdout, run without input, gives exactly the Output section; a call with
\* every part empty gives exactly the fixed no-output message; and the output
\* is published with isRunning false.
C22_OutputSections ==
  /\ \A r \in 1..Len(runs) :
       LET out  == runs[r].output
           want == NonEmptySections(runs[r].stdin, runs[r].result)
       IN /\ want # {} =>
               /\ Len(out) = Cardinality(want)
               /\ \A i \in want : \E k \in 1..Len(out) : out[k] = SectionOrder[i]
               /\ \A k, l \in 1..Len(out) :
                    k < l => \E i, j \in want :
                               i < j /\ out[k] = SectionOrder[i] /\ out[l] = SectionOrder[j]
          /\ want = {2} => out = <<"Output">>
          /\ want = {} => out = <<"Code executed successfully with no output">>
  /\ runs # <<>> => executionState = ExecutionState(FALSE, runs[Len(runs)].output)

\* a run with input whose result has both streams and a message, after a run
\* that produced nothing at all
C22_Witness ==
  /\ Len(runs) = 2
  /\ runs[1].output = <<"Code executed successfully with no output">>
  /\ runs[2].stdin = "5"
  /\ runs[2].result = [stdout |-> TRUE, stderr |-> TRUE,
                       compile_output |-> FALSE, message |-> TRUE]
  /\ executionState.output = <<"Input", "Output", "Error", "Message">>

\* ---- C25 -------------------------------------------------------------------
\* the placeholder of turn t says that the search found nothing
ReportsNoResults(msgs, t) ==
  \E i \in Indices(msgs) :
    /\ msgs[i].turn = t /\ msgs[i].role = "assistant"
    /\ \E k \in 1..Len(msgs[i].content) : msgs[i].content[k].k = "noresults"

\* C25: when a web search settles with zero results the turn ends as a
\* success: its placeholder is the turn's only assistant entry, it is not
\* loading, isError is not set, and its content is the report headed by the
\* literal query followed by the no-results phrase.
C25_NoResultsIsSuccess ==
  [][ \A t \in 1..Len(turns) :
        (Settles(t) /\ turns[t].path = "search" /\ ReportsNoResults(messages', t)) =>
          LET own == EntriesOf(messages', t, "assistant")
          IN /\ turns'[t].pc = "done"
             /\ Len(own) = 1
             /\ own[1].id = turns[t].loadingId
             /\ ~own[1].isLoading /\ ~own[1].isError
             /\ own[1].content = <<Part("report", 0, turns[t].text),
                                   Part("noresults", 0, "")>>
             /\ Trim(turns[t].text) # ""
    ]_vars

\* a search for "analyze" settled with no results: the turn is done and its
\* placeholder shows the report for that query
C25_Witness ==
  \E t \in 1..Len(turns) :
    /\ turns[t].path = "search" /\ turns[t].pc = "done"
    /\ \E i \in Indices(messages) :
         /\ messages[i].turn = t /\ messages[i].role = "assistant"
         /\ ~messages[i].isLoading /\ ~messages[i].isError
         /\ messages[i].content = <<Part("report", 0, "analyze"), Part("noresults", 0, "")>>

\* ---- C27 -------------------------------------------------------------------
AllModels ==
  UNION {{ModelsOf(p)[i] : i \in 1..Len(ModelsOf(p))} : p \in Providers}

\* the selectors of the header next to the input box
NextSelectors ==
  \/ \E p \in Providers : handleProviderChange(p)
  \/ \E m \in AllModels : handleModelChange(m)
  \/ \E t \in Texts : handleInputChange(t)
  \/ ToggleWebSearch

SpecSelectors == Init /\ [][NextSelectors]_vars

\* C27: the selected model is always one of the models of the selected
\* provider.
C27_ModelOfProvider ==
  \E i \in 1..Len(ModelsOf(provider)) : ModelsOf(provider)[i] = model

\* the second model of a provider other than the default one is selected
C27_Witness ==
  /\ provider = "google"
  /\ model = GOOGLE_MODELS[2]

\* ---- language detection -----------------------------------------------------
MaxTokens == 2    \* length of a code fragment, in tokens
MaxDetect == 1    \* calls of detectLanguage that are kept

\* SUPPORTED_LANGUAGES, in the order of the table: sandbox id and aliases
SUPPORTED_LANGUAGES ==
  << [id |-> 93, aliases |-> {"javascript", "js", "node", "nodejs", "node.js"}],
     [id |-> 71, aliases |-> {"python", "py", "python3"}],
     [id |-> 70, aliases |-> {"python2", "py2"}],
     [id |-> 74, aliases |-> {"typescript", "ts"}],
     [id |-> 62, aliases |-> {"java"}],
     [id |-> 51, aliases |-> {"csharp", "cs"}],
     [id |-> 54, aliases |-> {"cpp", "c++"}],
     [id |-> 50, aliases |-> {"c"}],
     [id |-> 1,  aliases |-> {"bash", "sh", "shell"}],
     [id |-> 60, aliases |-> {"shell", "bash", "sh"}],
     [id |-> 63, aliases |-> {"javascript", "js"}],
     [id |-> 82, aliases |-> {"sql"}],
     [id |-> 78, aliases |-> {"kotlin", "kt"}],
     [id |-> 83, aliases |-> {"swift"}],
     [id |-> 68, aliases |-> {"php"}],
     [id |-> 73, aliases |-> {"rust", "rs"}],
     [id |-> 72, aliases |-> {"ruby", "rb"}] >>

\* SUPPORTED_LANGUAGES.find(lang => lang.id === id)
LanguageById(id) ==
  SUPPORTED_LANGUAGES[CHOOSE i \in 1..Len(SUPPORTED_LANGUAGES) :
                        /\ SUPPORTED_LANGUAGES[i].id = id
                        /\ \A j \in 1..(i - 1) : SUPPORTED_LANGUAGES[j].id # id]

\* a code fragment is a sequence of tokens; " " is white space, "x" any other text
CodeTokens == {" ", "def ", "print(", "const ", "console.log", "x"}
DetectCodes == SeqsUpTo(CodeTokens, MaxTokens)

\* the language tag of a fragment: (\w+) of a fence, lower-cased or not, or none
DetectHints == {"", "python", "Python", "PY", "py2", "js", "java", "bash", "Shell", "plaintext"}

\* String.prototype.trim on a fragment: blank ends go, and so does the blank
\* that ends the last token
RECURSIVE TrimStart(_)
TrimStart(code) ==
  IF code # <<>> /\ Head(code) = " " THEN TrimStart(Tail(code)) ELSE code

RECURSIVE TrimEnd(_)
TrimEnd(code) ==
  IF code # <<>> /\ code[Len(code)] = " "
  THEN TrimEnd(SubSeq(code, 1, Len(code) - 1))
  ELSE code

TrimFragment(code) ==
  LET c == TrimEnd(TrimStart(code))
      last == IF c = <<>> THEN "" ELSE c[Len(c)]
      cut == CASE last = "def "   -> "def"
               [] last = "const " -> "const"
               [] OTHER           -> last
  IN IF c = <<>> THEN c ELSE [c EXCEPT ![Len(c)] = cut]

\* trimmedCode.startsWith('def ') || ... || trimmedCode.startsWith('class ')
StartsLikePython(trimmedCode) ==
  trimmedCode # <<>> /\ trimmedCode[1] \in {"def ", "print("}

\* trimmedCode.includes('function') || ... || trimmedCode.includes('console.log')
HasJavaScriptToken(trimmedCode) ==
  \E k \in 1..Len(trimmedCode) : trimmedCode[k] \in {"const ", "console.log"}

\* SUPPORTED_LANGUAGES.find(lang => lang.aliases.some(alias => alias.toLowerCase() === hint))
MatchedByHint(hint) ==
  {i \in 1..Len(SUPPORTED_LANGUAGES) : hint \in SUPPORTED_LANGUAGES[i].aliases}

\* a detector that looks for JavaScript tokens before Python prefixes
detectLanguage_JavaScriptFirst(code, languageHint) ==
  LET hint == ToLowerCase(languageHint)
      trimmedCode == TrimFragment(code)
  IN IF languageHint # "" /\ MatchedByHint(hint) # {}
     THEN SUPPORTED_LANGUAGES[CHOOSE i \in MatchedByHint(hint) :
                                \A j \in MatchedByHint(hint) : i <= j]
     ELSE IF HasJavaScriptToken(trimmedCode) THEN LanguageById(93)
     ELSE IF StartsLikePython(trimmedCode) THEN LanguageById(71)
     ELSE LanguageById(93)

detectLanguage(code, languageHint) ==
  LET hint == ToLowerCase(languageHint)
      trimmedCode == TrimFragment(code)
  IN IF languageHint # "" /\ MatchedByHint(hint) # {}
     THEN SUPPORTED_LANGUAGES[CHOOSE i \in MatchedByHint(hint) :
                                \A j \in MatchedByHint(hint) : i <= j]
     ELSE IF StartsLikePython(trimmedCode) THEN LanguageById(71)
     ELSE IF HasJavaScriptToken(trimmedCode) THEN LanguageById(93)
     ELSE LanguageById(93)

\* const lang = detectLanguage(code, language)   (handleRunCode)
Detect(code, hint) ==
  /\ Len(detected) < MaxDetect
  /\ detected' = Append(detected, [code |-> code, hint |-> hint,
                                   lang |-> detectLanguage(code, hint)])
  /\ UNCHANGED <<variant, batches, alerts, rendered, serviceAvailable, clock, messages, isLoading,
                 isSearching, input, uploadedFiles, isWebSearchEnabled, provider,
                 model, panelFiles, usedFiles, analyses, turns, auxVars>>

NextDetect == \E code \in DetectCodes, hint \in DetectHints : Detect(code, hint)

SpecDetect == Init /\ [][NextDetect]_vars

\* ---- C28 -------------------------------------------------------------------
KnownAliases == UNION {SUPPORTED_LANGUAGES[i].aliases : i \in 1..Len(SUPPORTED_LANGUAGES)}

\* C28: detection always returns a language of the table; a hint that equals a
\* known alias, letter case aside, decides: the result is the first language of
\* the table that has the alias, whatever the code; without such a hint, a
\* fragment that (blank ends aside) starts with a Python prefix is Python 3 even
\* if it holds JavaScript tokens, and every other fragment is JavaScript (Node).
C28_DetectionPrecedence ==
  \A n \in 1..Len(detected) :
    LET d == detected[n]
        byAlias == {i \in 1..Len(SUPPORTED_LANGUAGES) :
                      ToLowerCase(d.hint) \in SUPPORTED_LANGUAGES[i].aliases}
        text == TrimFragment(d.code)
    IN /\ \E i \in 1..Len(SUPPORTED_LANGUAGES) : d.lang = SUPPORTED_LANGUAGES[i]
       /\ ToLowerCase(d.hint) \in KnownAliases =>
            /\ ToLowerCase(d.hint) \in d.lang.aliases
            /\ \A i \in byAlias : \E j \in byAlias : j <= i /\ d.lang = SUPPORTED_LANGUAGES[j]
       /\ (ToLowerCase(d.hint) \notin KnownAliases
             /\ text # <<>> /\ text[1] \in {"def ", "print("}) => d.lang.id = 71
       /\ (ToLowerCase(d.hint) \notin KnownAliases
             /\ ~(text # <<>> /\ text[1] \in {"def ", "print("})) => d.lang.id = 93

\* a fragment that starts with def and logs to the console, tagged plaintext,
\* was detected as Python 3
C28_Witness ==
  \E n \in 1..Len(detected) :
    /\ detected[n].hint = "plaintext"
    /\ detected[n].code = <<"def ", "console.log">>
    /\ detected[n].lang.id = 71

\* ---- file content in a message ------------------------------------------------
MaxRendered == 2    \* calls of the file formatter that are kept
MAX_FILE_CONTENT_CHARS == 50000

\* file.content.length of the files that are formatted
ContentLengths == {0, 1, 49999, 50000, 50001, 120000}

\* a cut that starts at the budget itself
RenderTextContent_CutsAtBudget(length) ==
  LET truncated == length >= MAX_FILE_CONTENT_CHARS
      shown == IF truncated THEN MAX_FILE_CONTENT_CHARS ELSE length
  IN <<[k |-> "content", first |-> 1, last |-> shown]>> \o
     (IF truncated
      THEN <<[k |-> "truncated", first |-> MAX_FILE_CONTENT_CHARS, last |-> length]>>
      ELSE <<>>)

\* the text branch of formatFilesForMessage: the content is given by the
\* positions of the file's characters that are shown, the marker by the two
\* numbers it prints
RenderTextContent(length) ==
  LET truncated == length > MAX_FILE_CONTENT_CHARS
      shown == IF truncated THEN MAX_FILE_CONTENT_CHARS ELSE length
  IN <<[k |-> "content", first |-> 1, last |-> shown]>> \o
     (IF truncated
      THEN <<[k |-> "truncated", first |-> MAX_FILE_CONTENT_CHARS, last |-> length]>>
      ELSE <<>>)

\* the body of one file in formatFilesForMessage
FormatFileBody(type, hasAnalysis, length) ==
  IF hasAnalysis THEN <<[k |-> "analysis", first |-> 0, last |-> 0]>>
  ELSE IF type = "text" THEN RenderTextContent(length)
  ELSE <<[k |-> "placeholder", first |-> 0, last |-> 0]>>

\* formatFilesForMessage on a file of the given type and length
FormatFile(type, hasAnalysis, length) ==
  /\ Len(rendered) < MaxRendered
  /\ rendered' = Append(rendered, [type |-> type, hasAnalysis |-> hasAnalysis,
                                   length |-> length,
                                   text |-> FormatFileBody(type, hasAnalysis, length)])
  /\ UNCHANGED <<variant, batches, alerts, detected, serviceAvailable, clock, messages, isLoading,
                 isSearching, input, uploadedFiles, isWebSearchEnabled, provider,
                 model, panelFiles, usedFiles, analyses, turns, auxVars>>

NextFormat ==
  \E type \in {"text", "image", "binary"}, hasAnalysis \in BOOLEAN, length \in ContentLengths :
    FormatFile(type, hasAnalysis, length)

SpecFormat == Init /\ [][NextFormat]_vars

\* ---- C26 -------------------------------------------------------------------
\* C26: a text file without analysis whose content is longer than 50,000
\* characters is rendered as its characters 1 to 50,000 followed by the
\* truncation marker (which names 50,000 and the full length); content of
\* 50,000 characters or fewer is rendered whole, with no marker.
C26_TruncationAtBudget ==
  \A n \in 1..Len(rendered) :
    LET r == rendered[n]
    IN (r.type = "text" /\ ~r.hasAnalysis) =>
         /\ r.length > 50000 =>
              r.text = <<[k |-> "content", first |-> 1, last |-> 50000],
                         [k |-> "truncated", first |-> 50000, last |-> r.length]>>
         /\ r.length <= 50000 =>
              r.text = <<[k |-> "content", first |-> 1, last |-> r.length]>>

\* a text file of exactly 50,000 characters was rendered whole, and one of
\* 50,001 characters was cut
C26_Witness ==
  /\ Len(rendered) = 2
  /\ rendered[1].type = "text" /\ ~rendered[1].hasAnalysis /\ rendered[1].length = 50000
  /\ Len(rendered[1].text) = 1
  /\ rendered[2].type = "text" /\ ~rendered[2].hasAnalysis /\ rendered[2].length = 50001
  /\ Len(rendered[2].text) = 2

\* ---- C29 -------------------------------------------------------------------
\* C29: the step in which an analysis completes never takes a completed result
\* out of the list held by the orchestrator: a file that is completed there is
\* still completed there, with its analysis, after the step.
C29_CompletionKeepsEarlierResult ==
  [][ (analyses' # analyses /\ Cardinality(analyses') < Cardinality(analyses)) =>
        \A i \in 1..Len(uploadedFiles) :
          uploadedFiles[i].analysisStatus = "completed" =>
            \E j \in 1..Len(uploadedFiles') :
              /\ uploadedFiles'[j].id = uploadedFiles[i].id
              /\ uploadedFiles'[j].analysisStatus = "completed"
              /\ uploadedFiles'[j].analysis = uploadedFiles[i].analysis
    ]_vars

\* ---- C30 -------------------------------------------------------------------
\* C30: before any turn has been submitted, a file that was picked and is in
\* neither the panel's list nor the orchestrator's list (it was removed) is not
\* in the orchestrator's list after the next step either.
C30_RemovedStaysRemoved ==
  [][ \A f \in FileIds :
        (turns = <<>> /\ f \in usedFiles
           /\ StatusOf(panelFiles, f) = "absent"
           /\ StatusOf(uploadedFiles, f) = "absent") =>
          StatusOf(uploadedFiles', f) = "absent"
    ]_vars

\* ---- adding files in batches --------------------------------------------------
MaxBatches == 3     \* processFiles calls in a behaviour of SpecUpload
MaxBatch == 3       \* files picked at once
maxSizeInMB == 10   \* <EnhancedFileUpload maxSizeInMB={10}>
MaxSizeBytes == maxSizeInMB * 1024 * 1024

\* file.size of the picked files: at the limit and one byte over it
FileSizes == {MaxSizeBytes, MaxSizeBytes + 1}
\* the sizes of the files of a batch, in the order of the FileList; at most
\* one file of a batch is over the limit
BatchShapes ==
  {s \in SeqsUpTo(FileSizes, MaxBatch) \ {<<>>} :
     Cardinality({i \in 1..Len(s) : s[i] > MaxSizeBytes}) <= 1}
PickedIds == 1..(MaxBatches * MaxBatch)

\* the FileList of a drop or a file dialog: new files, numbered as they are picked
PickedFiles(sizes) ==
  [i \in 1..Len(sizes) |-> [id |-> Cardinality(usedFiles) + i, size |-> sizes[i]]]

\* a count check that looks at the staged files only, not at the batch
processFilesBegin_IgnoresBatchSize(sizes) ==
  /\ Len(batches) < MaxBatches
  /\ LET files == PickedFiles(sizes)
     IN /\ IF Len(panelFiles) >= maxFiles
           THEN /\ batches' = Append(batches, [pc |-> "rejected", files |-> files,
                                               closure |-> <<>>])
                /\ alerts' = alerts \cup {[kind |-> "count", file |-> 0]}
           ELSE /\ batches' = Append(batches, [pc |-> "reading", files |-> files,
                                               closure |-> panelFiles])
                /\ alerts' = alerts
        /\ usedFiles' = usedFiles \cup {files[i].id : i \in 1..Len(files)}
  /\ UNCHANGED <<variant, detected, rendered, serviceAvailable, clock, messages,
                 isLoading, isSearching, input, uploadedFiles, isWebSearchEnabled,
                 provider, model, panelFiles, analyses, turns, auxVars>>

\* processFiles up to its loop: the count check on the list of this render,
\* which the rest of the call keeps using
processFilesBegin(sizes) ==
  /\ Len(batches) < MaxBatches
  /\ LET files == PickedFiles(sizes)
     IN /\ IF Len(panelFiles) + Len(files) > maxFiles
           THEN /\ batches' = Append(batches, [pc |-> "rejected", files |-> files,
                                               closure |-> <<>>])
                /\ alerts' = alerts \cup {[kind |-> "count", file |-> 0]}
           ELSE /\ batches' = Append(batches, [pc |-> "reading", files |-> files,
                                               closure |-> panelFiles])
                /\ alerts' = alerts
        /\ usedFiles' = usedFiles \cup {files[i].id : i \in 1..Len(files)}
  /\ UNCHANGED <<variant, detected, rendered, serviceAvailable, clock, messages,
                 isLoading, isSearching, input, uploadedFiles, isWebSearchEnabled,
                 provider, model, panelFiles, analyses, turns, auxVars>>

\* a loop that stages every file of the batch, whatever its size
processFilesEnd_KeepsOversized(b) ==
  /\ b \in 1..Len(batches)
  /\ batches[b].pc = "reading"
  /\ LET B == batches[b]
         status == IF variant = "ChatInterface" THEN "pending" ELSE "none"
         newFiles == MapSeq(B.files, LAMBDA x : NewFile(x.id, status))
         updatedFiles == B.closure \o newFiles
     IN /\ panelFiles' = updatedFiles
        /\ uploadedFiles' = updatedFiles
        /\ alerts' = alerts
  /\ batches' = [batches EXCEPT ![b] = [pc |-> "done", files |-> <<>>, closure |-> <<>>]]
  /\ UNCHANGED <<variant, detected, rendered, serviceAvailable, clock, messages,
                 isLoading, isSearching, input, isWebSearchEnabled, provider, model,
                 usedFiles, analyses, turns, auxVars>>

\* processFiles from its loop on: a file over the size limit is reported and
\* skipped, the others are read and appended to the list the call started
\* with; that list is stored and handed to the orchestrator
processFilesEnd(b) ==
  /\ b \in 1..Len(batches)
  /\ batches[b].pc = "reading"
  /\ LET B == batches[b]
         status == IF variant = "ChatInterface" THEN "pending" ELSE "none"
         kept == SelectSeq(B.files, LAMBDA x : ~(x.size > MaxSizeBytes))
         skipped == SelectSeq(B.files, LAMBDA x : x.size > MaxSizeBytes)
         newFiles == MapSeq(kept, LAMBDA x : NewFile(x.id, status))
         updatedFiles == B.closure \o newFiles
     IN /\ panelFiles' = updatedFiles
        /\ uploadedFiles' = updatedFiles          \* onFilesUploaded(updatedFiles)
        /\ alerts' = alerts \cup {[kind |-> "size", file |-> skipped[i].id] :
                                     i \in 1..Len(skipped)}
  /\ batches' = [batches EXCEPT ![b] = [pc |-> "done", files |-> <<>>, closure |-> <<>>]]
  /\ UNCHANGED <<variant, detected, rendered, serviceAvailable, clock, messages,
                 isLoading, isSearching, input, isWebSearchEnabled, provider, model,
                 usedFiles, analyses, turns, auxVars>>

\* the upload panel with batches, removals, analyses and submits of the staged files
NextUpload ==
  \/ \E sizes \in BatchShapes : processFilesBegin(sizes)
  \/ \E b \in 1..MaxBatches : processFilesEnd(b)
  \/ \E f \in PickedIds : removeFile(f)
  \/ Len(turns) < MaxTurns /\ handleSendMessageRegular

InitUpload == Init /\ variant = "ChatInterface" /\ serviceAvailable
SpecUpload == InitUpload /\ [][NextUpload]_vars

\* the upload panel with small batches and the analysis of staged files, one
\* call at a time
MaxInFlight == 1    \* analyses awaiting the collaborator in SpecSizes

NextSizes ==
  \/ \E sizes \in {s \in BatchShapes : Len(s) <= 2} : processFilesBegin(sizes)
  \/ \E b \in 1..MaxBatches : processFilesEnd(b)
  \/ \E f \in PickedIds : Cardinality(analyses) < MaxInFlight /\ analyzeFile(f)
  \/ \E a \in analyses : analyzeFileResolved(a, FALSE)

SpecSizes == InitUpload /\ [][NextSizes]_vars

\* ---- C23 -------------------------------------------------------------------
IdsOf(files) == {files[i].id : i \in 1..Len(files)}

\* C23: a batch whose size added to the number of files in the list exceeds
\* maxFiles (5) is rejected as a whole: the step changes neither the panel's
\* list nor the orchestrator's and shows the count notice, the batch is never
\* processed later, and none of its files is ever in either list or attached
\* to a turn; and after every step both lists hold at most maxFiles files.
C23_BatchCountLimit ==
  [][ /\ Len(batches') > Len(batches) =>
           LET n == Cardinality(usedFiles' \ usedFiles)
           IN /\ n >= 1
              /\ Len(panelFiles) + n > 5 =>
                   /\ batches'[Len(batches')].pc = "rejected"
                   /\ panelFiles' = panelFiles
                   /\ uploadedFiles' = uploadedFiles
                   /\ [kind |-> "count", file |-> 0] \in alerts'
      /\ \A b \in 1..Len(batches) :
           batches[b].pc = "rejected" => batches'[b] = batches[b]
      /\ \A b \in 1..Len(batches') :
           batches'[b].pc = "rejected" =>
             /\ IdsOf(batches'[b].files) \cap IdsOf(panelFiles') = {}
             /\ IdsOf(batches'[b].files) \cap IdsOf(uploadedFiles') = {}
             /\ \A t \in 1..Len(turns') :
                  IdsOf(batches'[b].files) \cap IdsOf(turns'[t].files) = {}
      /\ Len(panelFiles') <= 5
      /\ Len(uploadedFiles') <= 5
    ]_vars

\* five files are staged, from two batches, and a third batch was turned down
C23_Witness ==
  /\ Len(panelFiles) = 5 /\ Len(uploadedFiles) = 5
  /\ Len(batches) = 3
  /\ batches[3].pc = "rejected"
  /\ [kind |-> "count", file |-> 0] \in alerts

C31_SentFilesNotStagedAgain ==
  [][ usedFiles' # usedFiles =>
        \A t \in 1..Len(turns) :
          turns[t].pc = "provider" =>
            IdsOf(turns[t].files) \cap IdsOf(uploadedFiles') = {}
    ]_vars

\* ---- C32 -------------------------------------------------------------------
\* C32: while a chat turn is awaiting the analysis of its files, no step
\* accepts another turn with the same text and the same files.
C32_OneTurnPerSubmit ==
  [][ \A t \in 1..Len(turns) :
        turns[t].pc = "analyzing" =>
          ~ /\ Len(turns') = Len(turns) + 1
            /\ turns'[Len(turns')].text = turns[t].text
            /\ turns'[Len(turns')].files = turns[t].files
    ]_vars

\* ---- C33 -------------------------------------------------------------------
\* C33: whenever the transcript holds a loading placeholder of a chat or an
\* image turn, isLoading is true.
C33_LoadingFlagCoversPlaceholders ==
  \A i \in Indices(messages) :
    (messages[i].isLoading /\ turns[messages[i].turn].path \in {"chat", "image"}) =>
      isLoading

\* ---- C34 -------------------------------------------------------------------
\* C34: whenever an execution request is outstanding, isRunning is true in the
\* orchestrator and, while the workspace is open, in the workspace.
C34_RunningCoversOutstandingRuns ==
  Executing(runs) # {} =>
    /\ executionState.isRunning
    /\ showWorkspace => localExecutionState.isRunning

\* ---- C35 -------------------------------------------------------------------
\* C35: once the workspace has been opened, which resets the execution state
\* to not running with an empty output, the output stays empty until a run is
\* started from that workspace: no step in which an earlier run settles puts
\* that run's result into the execution state or into the workspace's copy.
C35_StaleRunNotShown ==
  [][ (showWorkspace /\ executionState.output = <<>>) =>
        /\ executionState'.output \in {<<>>, <<"Running code...">>}
        /\ Executing(runs') # Executing(runs) =>
             localExecutionState'.output \in {<<>>, <<"Running code...">>}
    ]_vars

\* ---- C36 -------------------------------------------------------------------
\* the part_005 build with its analysis service, up to MaxActivations turns
NextHistory ==
  \/ Tick
  \/ \E t \in {"hi", "analyze"} : handleInputChange(t)
  \/ \E f \in FileIds : processFiles(f)
  \/ handleSendMessageDirect
  \/ handleSendMessageAnalyze
  \/ \E t \in 1..MaxActivations, ok \in BOOLEAN : analyzeFilesWithAI(t, ok)
  \/ \E t \in 1..MaxActivations : ProviderResolved(t)
  \/ \E t \in 1..MaxActivations : ProviderRejected(t)

SpecHistory == InitBatch /\ [][NextHistory]_vars

\* C36: the history part of a chat payload, everything before its last
\* element, holds settled entries only: no element of it is a still-loading
\* placeholder, whose content is empty.
C36_HistoryHoldsSettledEntries ==
  \A t \in 1..Len(turns) :
    \A i \in 1..(Len(turns[t].payload) - 1) :
      turns[t].payload[i].content # <<>>

\* ---- C37 -------------------------------------------------------------------
\* files as the browser hands them over: File.type and the extension of
\* File.name (a type is empty when the platform does not know the extension)
FileSamples ==
  { [type |-> "text/plain",               ext |-> ".txt"],
    [type |-> "text/markdown",            ext |-> ".md"],
    [type |-> "",                         ext |-> ".md"],
    [type |-> "application/json",         ext |-> ".json"],
    [type |-> "text/csv",                 ext |-> ".csv"],
    [type |-> "application/vnd.ms-excel", ext |-> ".csv"],
    [type |-> "text/javascript",          ext |-> ".js"],
    [type |-> "video/mp2t",               ext |-> ".ts"],
    [type |-> "",                         ext |-> ".ts"],
    [type |-> "text/x-python",            ext |-> ".py"],
    [type |-> "",                         ext |-> ".py"],
    [type |-> "text/x-java",              ext |-> ".java"],
    [type |-> "",                         ext |-> ".java"],
    [type |-> "",                         ext |-> ".cpp"],
    [type |-> "text/x-csrc",              ext |-> ".c"],
    [type |-> "",                         ext |-> ".c"],
    [type |-> "image/png",                ext |-> ".png"],
    [type |-> "application/pdf",          ext |-> ".pdf"] }

\* file.type.startsWith('text/')
TypeStartsWithText(type) ==
  type \in {"text/plain", "text/markdown", "text/csv", "text/javascript",
            "text/x-python", "text/x-java", "text/x-csrc"}
\* file.type.startsWith('image/')
TypeStartsWithImage(type) == type \in {"image/png"}
\* file.type.includes(word)
TypeIncludes(type, word) ==
  CASE word = "json"     -> type = "application/json"
    [] word = "csv"      -> type = "text/csv"
    [] word = "markdown" -> type = "text/markdown"
    [] OTHER             -> FALSE

\* readFileContent: the test that chooses reader.readAsText over readAsDataURL
ReadsAsText(file) ==
  \/ TypeStartsWithText(file.type)
  \/ TypeIncludes(file.type, "json")
  \/ TypeIncludes(file.type, "csv")
  \/ TypeIncludes(file.type, "markdown")
  \/ file.ext \in {".md", ".txt", ".json", ".csv", ".js", ".ts", ".py", ".java", ".cpp", ".c"}

\* formatFilesForMessage: the test of its "For text files, include content" branch
IncludesContent(file) ==
  \/ TypeStartsWithText(file.type)
  \/ TypeIncludes(file.type, "json")
  \/ TypeIncludes(file.type, "csv")
  \/ file.ext \in {".md", ".txt", ".json", ".csv"}

\* the body formatFilesForMessage writes for one file
FormatSampleBody(file, hasAnalysis) ==
  IF hasAnalysis THEN "analysis"
  ELSE IF IncludesContent(file) THEN "content"
  ELSE IF TypeStartsWithImage(file.type) THEN "image placeholder"
  ELSE "file placeholder"

\* a file goes through the upload step (readFileContent) and, later, through
\* formatFilesForMessage
ReadAndFormat(file, hasAnalysis) ==
  /\ Len(rendered) < MaxRendered
  /\ rendered' = Append(rendered,
                        [file |-> file, hasAnalysis |-> hasAnalysis,
                         readAs |-> IF ReadsAsText(file) THEN "text" ELSE "dataURL",
                         body |-> FormatSampleBody(file, hasAnalysis)])
  /\ UNCHANGED <<variant, batches, alerts, detected, serviceAvailable, clock, messages, isLoading,
                 isSearching, input, uploadedFiles, isWebSearchEnabled, provider,
                 model, panelFiles, usedFiles, analyses, turns, auxVars>>

NextEncode ==
  \E file \in FileSamples, hasAnalysis \in BOOLEAN : ReadAndFormat(file, hasAnalysis)

SpecEncode == Init /\ [][NextEncode]_vars

\* C37: every file that the upload step reads as text, source files
\* recognised by their extension included, and that has no analysis is
\* rendered into the chat payload with its text content and not as a
\* placeholder line without content.
C37_TextFilesRenderedWithContent ==
  \A n \in 1..Len(rendered) :
    (rendered[n].readAs = "text" /\ ~rendered[n].hasAnalysis) =>
      rendered[n].body = "content"

\* ---- C38 -------------------------------------------------------------------
maxAttempts == 30

\* File.state as files.get reports it
FileStates == {"STATE_UNSPECIFIED", "PROCESSING", "ACTIVE", "FAILED"}

\* a rejection of uploadFile: its catch wraps every error as
\* `Failed to upload file: ${error.message}`; error holds the wrapped message
UploadRejected(call, message) == [call EXCEPT !.pc = "rejected", !.error = message]

\* the loop test and what follows the loop, on the file state just read
AfterGet(call) ==
  IF call.state = "PROCESSING" /\ call.attempts < maxAttempts
  THEN [call EXCEPT !.pc = "sleep"]
  ELSE IF call.state = "FAILED"
       THEN UploadRejected(call, "File processing failed.")
  ELSE IF call.state = "PROCESSING"
       THEN UploadRejected(call, "File processing timed out.")
  ELSE [call EXCEPT !.pc = "returned"]

\* uploadFile up to `await this.ai.files.upload(...)`
uploadFile ==
  /\ uploadCall.pc = "idle"
  /\ uploadCall' = [uploadCall EXCEPT !.pc = "upload"]
  /\ UNCHANGED <<chatVars, svc, bubbleVars, runVars>>

\* files.upload settles; on success uploadFile goes on to the first files.get
UploadSettled(ok) ==
  /\ uploadCall.pc = "upload"
  /\ uploadCall' = IF ok THEN [uploadCall EXCEPT !.pc = "get"]
                         ELSE UploadRejected(uploadCall, "request failed")
  /\ UNCHANGED <<chatVars, svc, bubbleVars, runVars>>

\* the files.get ahead of the loop settles
GetSettled(ok, state) ==
  /\ uploadCall.pc = "get"
  /\ uploadCall' = IF ok THEN AfterGet([uploadCall EXCEPT !.state = state])
                         ELSE UploadRejected(uploadCall, "request failed")
  /\ UNCHANGED <<chatVars, svc, bubbleVars, runVars>>

\* the 10 second timer of the loop body fires, files.get is called again
TimerFired ==
  /\ uploadCall.pc = "sleep"
  /\ uploadCall' = [uploadCall EXCEPT !.pc = "poll"]
  /\ UNCHANGED <<chatVars, svc, bubbleVars, runVars>>

\* a loop body that reads the state again and does not count the attempt
PollSettled_NoCount(ok, state) ==
  /\ uploadCall.pc = "poll"
  /\ uploadCall' = IF ok THEN AfterGet([uploadCall EXCEPT !.state = state])
                         ELSE UploadRejected(uploadCall, "request failed")
  /\ UNCHANGED <<chatVars, svc, bubbleVars, runVars>>

\* the files.get of the loop body settles: getFile = ...; attempts++
PollSettled(ok, state) ==
  /\ uploadCall.pc = "poll"
  /\ uploadCall' = IF ok THEN AfterGet([uploadCall EXCEPT !.state = state,
                                                          !.attempts = @ + 1])
                         ELSE UploadRejected(uploadCall, "request failed")
  /\ UNCHANGED <<chatVars, svc, bubbleVars, runVars>>

NextPoll ==
  \/ uploadFile
  \/ \E ok \in BOOLEAN : UploadSettled(ok)
  \/ \E ok \in BOOLEAN, state \in FileStates : GetSettled(ok, state)
  \/ TimerFired
  \/ \E ok \in BOOLEAN, state \in FileStates : PollSettled(ok, state)

SpecPoll == Init /\ [][NextPoll]_vars
\* timers fire and the requests of the client settle
SpecPollFair == SpecPoll /\ WF_vars(NextPoll)

\* the wait of the call has been left
UploadFinished == uploadCall.pc \in {"returned", "rejected"}

\* C38: the wait of uploadFile for remote processing terminates: the loop
\* reads the file state again at most maxAttempts (30) times, and the call
\* ends; it then returns a file whose state is neither PROCESSING nor FAILED,
\* or rejects with the failed error (state FAILED), with the timed-out error
\* (still PROCESSING after 30 polls), or with the error of a request that
\* failed.
C38_UploadWaitTerminates ==
  /\ [](/\ uploadCall.attempts <= maxAttempts
        /\ uploadCall.pc = "returned" => uploadCall.state \notin {"PROCESSING", "FAILED"}
        /\ uploadCall.pc = "rejected" =>
             \/ uploadCall.error = "File processing failed." /\ uploadCall.state = "FAILED"
             \/ /\ uploadCall.error = "File processing timed out."
                /\ uploadCall.state = "PROCESSING" /\ uploadCall.attempts = maxAttempts
             \/ uploadCall.error = "request failed")
  /\ <>UploadFinished

\* the call timed out: the file was still PROCESSING at the 30th poll
C38_Witness ==
  /\ uploadCall.pc = "rejected"
  /\ uploadCall.error = "File processing timed out."
  /\ uploadCall.attempts = maxAttempts

====
